---- MODULE Spec2Model ----
(***************************************************************************)
(* The audit collector of src/gausskernel/process/postmaster/pgaudit.cpp:  *)
(* the chunked pipe protocol and its reassembly, the audit files and the   *)
(* ring index table, rotation, retention, and the query / delete scans.    *)
(*                                                                         *)
(* Data on the pipe, in the read buffer and in the audit files is kept as  *)
(* sequences of bytes (naturals 0..255) laid out as the C structs lay them *)
(* out on an LP64 build (ThreadId and pg_time_t are 8 bytes).              *)
(***************************************************************************)
EXTENDS Integers, Sequences, FiniteSets, TLC

(***************************************************************************)
(* Layout and protocol constants.                                          *)
(***************************************************************************)
PIPE_CHUNK_SIZE == 512
\* offsetof(PipeProtoHeader, data): nuls 0..1, len 2..3, pad 4..7, pid 8..15, is_last 16
PIPE_HEADER_SIZE == 17
\* sizeof(PipeProtoHeader): data[1] at 17, rounded up to the alignment of pid
SIZEOF_PipeProtoHeader == 24
PIPE_MAX_PAYLOAD == PIPE_CHUNK_SIZE - PIPE_HEADER_SIZE
READ_BUF_SIZE == 2 * PIPE_CHUNK_SIZE
NBUFFER_LISTS == 256
\* sizeof(AuditMsgHdr): signature 0..1, version 2..3, fields 4..5, flags 6..7,
\* time 8..15, size 16..19, pad 20..23
SIZEOF_AuditMsgHdr == 24
OFF_time == 8
OFF_size == 16
\* offsetof(AuditData, varstr): header 0..23, type 24..27, result 28..31
AUDIT_HEADER_SIZE == 32
AUDIT_TUPLE_NORMAL == 1
AUDIT_TUPLE_DEAD == 2
PGAUDIT_QUERY_COLS == 13
SECS_PER_MINUTE == 60
SECS_PER_DAY == 86400
AUDIT_INTERNAL_EVENT == 34
AUDIT_DML_ACTION == 32
AUDIT_OK == 1
CH_t == 116
CH_f == 102
CH_A == 65
CH_U == 85
CH_at == 64
CH_0 == 48

\* Largest value the model decodes from bytes; a field holding more decodes to it.
MaxInt == 1073741823

\* a NULL char pointer, among strings kept as byte sequences
NULL == <<-1>>

(***************************************************************************)
(* Bytes.                                                                  *)
(***************************************************************************)
Zeros(n) == [i \in 1..n |-> 0]

Fill(n, b) == [i \in 1..n |-> b]

RECURSIVE LE(_, _)
\* the n low bytes of v, least significant first (host order of the build)
LE(v, n) == IF n = 0 THEN <<>> ELSE <<v % 256>> \o LE(v \div 256, n - 1)

AllZero(b) == \A i \in 1..Len(b) : b[i] = 0

\* the unsigned integer held by the bytes b, least significant first
DecLE(b) ==
    IF \/ Len(b) > 4 /\ ~AllZero(SubSeq(b, 5, Len(b)))
       \/ Len(b) > 3 /\ b[4] >= 64
    THEN MaxInt
    ELSE (IF Len(b) >= 1 THEN b[1] ELSE 0)
         + (IF Len(b) >= 2 THEN 256 * b[2] ELSE 0)
         + (IF Len(b) >= 3 THEN 65536 * b[3] ELSE 0)
         + (IF Len(b) >= 4 THEN 16777216 * b[4] ELSE 0)

\* bytes at offsets off .. off+n-1 (C offsets, from 0) of buffer b
Bytes(b, off, n) == SubSeq(b, off + 1, off + n)

\* memcpy of src to offset off of b, clipped to the bytes b has
Poke(b, off, src) ==
    IF off >= Len(b) THEN b
    ELSE SubSeq(b, 1, off)
         \o SubSeq(src, 1, IF Len(src) < Len(b) - off THEN Len(src) ELSE Len(b) - off)
         \o SubSeq(b, off + Len(src) + 1, Len(b))

RECURSIVE Dec(_)
\* "%d" / "%u" / "%lu" of a natural
Dec(n) == IF n < 10 THEN <<CH_0 + n>> ELSE Dec(n \div 10) \o <<CH_0 + (n % 10)>>

Min(a, b) == IF a < b THEN a ELSE b

Max(a, b) == IF a > b THEN a ELSE b

(***************************************************************************)
(* String constants of the source, as bytes.                               *)
(***************************************************************************)
STR_file == <<102,105,108,101>>
STR_time == <<116,105,109,101>>
STR_create == <<99,114,101,97,116,101,32,97,32,110,101,119,32,97,117,100,105,116,32,102,105,108,101>>
STR_timechanged == <<115,121,115,116,101,109,32,116,105,109,101,32,99,104,97,110,103,101,100,46>>
STR_remove == <<114,101,109,111,118,101,32,97,110,32,97,117,100,105,116,32,102,105,108,101,40,110,117,109,98,101,114,58,32>>
STR_unknown == <<91,117,110,107,110,111,119,110,93>>

(***************************************************************************)
(* audit_report: the category filter and the encoded record.               *)
(***************************************************************************)
\* bit k of the integer mask m
Bit(m, k) == (m \div (2 ^ k)) % 2 = 1

\* the first test of audit_report: auditing is off, or the shared memory is
\* attached and says the server waits in pending mode (current_mode is kept
\* with the configuration record g)
audit_report_skips(g) == ~g.Audit_enabled \/ g.current_mode = "PENDING_MODE"

\* a variant of the switch in which internal events go by Audit_ServerAction
audit_type_enabled_internal_masked(g, type) ==
    CASE type = 1 -> Bit(g.Audit_Session, 0)
      [] type = 2 -> Bit(g.Audit_Session, 1)
      [] type = 3 -> Bit(g.Audit_Session, 2)
      [] type \in 4..7 -> g.Audit_ServerAction # 0
      [] type \in 8..9 -> g.Audit_LockUser # 0
      [] type \in 10..11 -> g.Audit_PrivilegeAdmin # 0
      [] type = 12 -> g.Audit_UserViolation # 0
      [] type \in 13..31 -> Bit(g.Audit_DDL, type - 13)
      [] type = AUDIT_DML_ACTION -> g.Audit_DML # 0
      [] type = 33 -> g.Audit_DML_SELECT # 0
      [] type = AUDIT_INTERNAL_EVENT -> g.Audit_ServerAction # 0
      [] type = 35 -> g.Audit_Exec # 0
      [] type \in 36..37 -> g.Audit_Copy # 0
      [] type = 38 -> g.Audit_Set # 0
      [] OTHER -> FALSE

\* the switch of audit_report: is a record of this type to be reported under
\* the configuration g (AuditType numbers as AuditTypeDescs lists them)
audit_type_enabled(g, type) ==
    CASE type = 1 -> Bit(g.Audit_Session, 0)
      [] type = 2 -> Bit(g.Audit_Session, 1)
      [] type = 3 -> Bit(g.Audit_Session, 2)
      [] type \in 4..7 -> g.Audit_ServerAction # 0
      [] type \in 8..9 -> g.Audit_LockUser # 0
      [] type \in 10..11 -> g.Audit_PrivilegeAdmin # 0
      [] type = 12 -> g.Audit_UserViolation # 0
      [] type \in 13..31 -> Bit(g.Audit_DDL, type - 13)
      [] type = AUDIT_DML_ACTION -> g.Audit_DML # 0
      [] type = 33 -> g.Audit_DML_SELECT # 0
      [] type = AUDIT_INTERNAL_EVENT -> TRUE
      [] type = 35 -> g.Audit_Exec # 0
      [] type \in 36..37 -> g.Audit_Copy # 0
      [] type = 38 -> g.Audit_Set # 0
      [] OTHER -> FALSE

\* a variant that appends nothing for a NULL string
appendStringField_null_skipped(str, s) ==
    IF s = NULL THEN str
    ELSE str \o LE(Len(s) + 1, 4) \o s \o <<0>>

\* appendStringField: a 4-byte length (strlen + 1), the bytes and a NUL;
\* for a NULL string the length 0 alone
appendStringField(str, s) ==
    IF s = NULL THEN str \o LE(0, 4)
    ELSE str \o LE(Len(s) + 1, 4) \o s \o <<0>>

\* a missing or empty name is reported as "[unknown]"
OrUnknown(s) == IF s = NULL \/ s = <<>> THEN STR_unknown ELSE s

\* The record audit_report builds.  port.connected is FALSE (MyProcPort NULL: the
\* collector itself, the postmaster) or the session's strings; pad is what
\* the uninitialised padding of the stack struct holds.
audit_record(type, result, port, object_name, detail_info, nodename, pad) ==
    LET hdr == <<CH_A, CH_U>> \o LE(0, 2) \o LE(PGAUDIT_QUERY_COLS, 2)
               \o LE(AUDIT_TUPLE_NORMAL, 2) \o LE(0, 8) \o LE(0, 4) \o Fill(4, pad)
               \o LE(type, 4) \o LE(result, 4)
        conn == IF port.connected
                THEN LET a == appendStringField(hdr, port.userid)
                         b == appendStringField(a, OrUnknown(port.username))
                         c == appendStringField(b, OrUnknown(port.dbname))
                         appname == OrUnknown(port.appname)
                         remotehost == OrUnknown(port.remotehost)
                     IN c \o LE(Len(appname) + Len(remotehost) + 2, 4)
                          \o appname \o <<CH_at>> \o remotehost \o <<0>>
                ELSE hdr \o LE(0, 4) \o LE(0, 4) \o LE(0, 4) \o LE(0, 4)
        f5 == appendStringField(conn, object_name)
        f6 == appendStringField(f5, detail_info)
        f7 == appendStringField(f6, nodename)
        f8 == appendStringField(f7, IF port.connected THEN port.threadid ELSE NULL)
        f9 == appendStringField(f8, IF port.connected THEN port.localport ELSE NULL)
    IN appendStringField(f9, IF port.connected /\ port.remoteport # <<>>
                             THEN port.remoteport ELSE NULL)

(***************************************************************************)
(* write_pipe_chunks: the buffers handed to write(), one per call.         *)
(***************************************************************************)
\* a PipeProtoChunk as written: header, then len payload bytes
PipeChunk(pid, is_last, payload, pad) ==
    <<0, 0>> \o LE(Len(payload), 2) \o Fill(4, pad) \o LE(pid, 8) \o <<is_last>> \o payload

RECURSIVE write_pipe_chunks_full_is_not_last(_, _, _, _)
\* a variant that goes on after a chunk that took all the remaining bytes
write_pipe_chunks_full_is_not_last(data, len, pid, pad) ==
    IF len >= PIPE_MAX_PAYLOAD
    THEN <<PipeChunk(pid, CH_f, SubSeq(data, 1, PIPE_MAX_PAYLOAD), pad)>>
         \o write_pipe_chunks_full_is_not_last(SubSeq(data, PIPE_MAX_PAYLOAD + 1, Len(data)),
                                               len - PIPE_MAX_PAYLOAD, pid, pad)
    ELSE <<PipeChunk(pid, CH_t, SubSeq(data, 1, len), pad)>>

RECURSIVE write_pipe_chunks(_, _, _, _)
write_pipe_chunks(data, len, pid, pad) ==
    IF len > PIPE_MAX_PAYLOAD
    THEN <<PipeChunk(pid, CH_f, SubSeq(data, 1, PIPE_MAX_PAYLOAD), pad)>>
         \o write_pipe_chunks(SubSeq(data, PIPE_MAX_PAYLOAD + 1, Len(data)),
                              len - PIPE_MAX_PAYLOAD, pid, pad)
    ELSE <<PipeChunk(pid, CH_t, SubSeq(data, 1, len), pad)>>

(***************************************************************************)
(* The collector's memory and the audit directory, as one record c that    *)
(* the routines below take and give back:                                  *)
(*   guc       the configuration snapshot the collector runs under         *)
(*   pad       the byte uninitialised stack padding holds                  *)
(*   tbl       t_thrd.audit.audit_indextbl                                 *)
(*   totalspace, beyond   pgaudit_totalspace, space_beyond_size            *)
(*   fh        t_thrd.audit.sysauditFile: open?, the file's number,        *)
(*             whether it is still linked in the directory, its position   *)
(*   files     the <filenum>_adt files of the directory, as bytes          *)
(*   indexfile the index_table file                                        *)
(*   lists     t_thrd.audit.buffer_lists (buckets in use only)             *)
(*   rotation_requested, rotation_disabled, next_rotation_time             *)
(*   removed   history: the files retention unlinked, in order             *)
(***************************************************************************)
AuditIndexItem(ctime, filenum, filesize) ==
    [ctime |-> ctime, filenum |-> filenum, filesize |-> filesize]

\* palloc0 of a table of maxnum items
NewIndexTable(maxnum) ==
    [maxnum |-> maxnum, begidx |-> 0, curidx |-> 0, count |-> 0, last_audit_time |-> 0,
     data |-> [i \in 0..(maxnum - 1) |-> AuditIndexItem(0, 0, 0)]]

AUDIT_COUNT(tbl) ==
    IF tbl.curidx >= tbl.begidx THEN tbl.curidx - tbl.begidx + 1
    ELSE tbl.curidx + tbl.maxnum + 1 - tbl.begidx

ClosedFile == [open |-> FALSE, fnum |-> 0, linked |-> FALSE, pos |-> 0]

\* the index_table file: absent, empty (created, nothing written) or a table
IndexAbsent == [kind |-> "absent"]

IndexEmpty == [kind |-> "empty"]

IndexHolding(tbl) == [kind |-> "table", tbl |-> tbl]

\* pgaudit_update_indexfile(PG_BINARY_W, allow_errors) in the collector
pgaudit_update_indexfile(c) == [c EXCEPT !.indexfile = IndexHolding(c.tbl)]

\* ftell(t_thrd.audit.sysauditFile)
ftell(c) == c.fh.pos

\* the disk takes every byte
NoFault == [at |-> "none", short |-> 0]

\* what fwrite (with its retry at ENOSPC) and the fflush after it leave in the
\* file.  c.enospc says where a full disk shows: in fwrite, after short bytes
\* went out: the loop at retry1 sleeps and calls fwrite with the whole buffer
\* again until it answers count; or in fflush, fwrite having answered count
\* with the bytes in the stream's buffer: short bytes went out, the stream
\* drops the rest, and the answer of fflush is not looked at.
Written(c, bytes) ==
    IF c.enospc.at = "fwrite" THEN SubSeq(bytes, 1, Min(c.enospc.short, Len(bytes))) \o bytes
    ELSE IF c.enospc.at = "fflush" THEN SubSeq(bytes, 1, Min(c.enospc.short, Len(bytes)))
    ELSE bytes

\* fwrite + fflush on the open audit file; the disk has room again afterwards
AppendFile(c, bytes) ==
    [c EXCEPT !.fh.pos = @ + Len(Written(c, bytes)),
              !.files = IF c.fh.linked
                        THEN [@ EXCEPT ![c.fh.fnum] = @ \o Written(c, bytes)]
                        ELSE @,
              !.enospc = NoFault]

NoPort == [connected |-> FALSE]

RECURSIVE pgaudit_write_file(_, _, _, _)
\* a variant that appends the record with the header the producer gave it
WriteRecord_as_sent(c, rec, now) == AppendFile(c, rec)

\* pgaudit_write_file(buf.data, buf.len) of an encoded record
WriteRecord(c, rec, now) == pgaudit_write_file(c, rec, Len(rec), now).c

\* audit_report as the collector calls it (t_thrd.role == AUDIT, no connection):
\* internal events are never filtered by category, and go straight to the file
audit_report_internal(c, object_name, detail_info, now) ==
    IF audit_report_skips(c.guc) THEN c
    ELSE WriteRecord(c, audit_record(AUDIT_INTERNAL_EVENT, AUDIT_OK, NoPort, object_name,
                                     detail_info, c.guc.PGXCNodeName, c.pad), now)

\* a variant that leaves the sign of the current slot's ctime alone
pgaudit_write_file_keep_sign(c, mem, count, now) ==
    IF ~c.fh.open THEN [c |-> c, mem |-> mem]
    ELSE
      LET stamped == Poke(Poke(mem, OFF_time, LE(now, 8)), OFF_size, LE(count, 4))
          c1 == IF c.tbl.last_audit_time > now
                THEN audit_report_internal(
                         pgaudit_update_indexfile([c EXCEPT !.tbl.last_audit_time = now]),
                         STR_time, STR_timechanged, now)
                ELSE c
          c2 == [c1 EXCEPT !.tbl.last_audit_time = now]
      IN [c |-> AppendFile(c2, SubSeq(stamped, 1, count)), mem |-> stamped]

\* pgaudit_write_file(buffer, count).  mem holds the memory from buffer on;
\* the stamps are written into it whether or not count covers them.
pgaudit_write_file(c, mem, count, now) ==
    IF ~c.fh.open THEN [c |-> c, mem |-> mem]
    ELSE
      LET stamped == Poke(Poke(mem, OFF_time, LE(now, 8)), OFF_size, LE(count, 4))
          item == c.tbl.data[c.tbl.curidx]
          c1 == IF c.tbl.last_audit_time > now
                THEN LET t1 == [c.tbl EXCEPT
                                  !.data[c.tbl.curidx].ctime =
                                      IF item.ctime > 0 THEN 0 - item.ctime ELSE item.ctime,
                                  !.last_audit_time = now]
                         c0 == pgaudit_update_indexfile([c EXCEPT !.tbl = t1])
                     IN audit_report_internal(c0, STR_time, STR_timechanged, now)
                ELSE c
          c2 == [c1 EXCEPT !.tbl.last_audit_time = now]
      IN [c |-> AppendFile(c2, SubSeq(stamped, 1, count)), mem |-> stamped]

(***************************************************************************)
(* process_pipe_input and flush_pipe_input.                                *)
(***************************************************************************)
GetList(lists, b) == IF b \in DOMAIN lists THEN lists[b] ELSE <<>>

SetList(lists, b, l) == [x \in DOMAIN lists \cup {b} |-> IF x = b THEN l ELSE lists[x]]

\* index of the first slot of list l that satisfies pid = want, 0 if none
RECURSIVE FindSlot(_, _, _)
FindSlot(l, want, i) ==
    IF i > Len(l) THEN 0
    ELSE IF l[i].pid = want THEN i ELSE FindSlot(l, want, i + 1)

\* the non-protocol scan: the first chunklen in 1..count-1 with
\* cursor[chunklen] = 0, and count when there is none
ScanNul(buf) ==
    CHOOSE chunklen \in 1..Len(buf) :
        /\ chunklen = Len(buf) \/ buf[chunklen + 1] = 0
        /\ \A k \in 1..(chunklen - 1) : buf[k + 1] # 0

\* the header test of process_pipe_input on the bytes at the cursor
ValidHeader(buf) ==
    /\ buf[1] = 0 /\ buf[2] = 0
    /\ DecLE(Bytes(buf, 2, 2)) > 0
    /\ DecLE(Bytes(buf, 2, 2)) <= PIPE_MAX_PAYLOAD
    /\ ~AllZero(Bytes(buf, 8, 8))
    /\ buf[PIPE_HEADER_SIZE] \in {CH_t, CH_f}

\* the size below which process_pipe_input leaves the bytes in the buffer
HeaderNeed == SIZEOF_PipeProtoHeader

\* the loop after a write from the read buffer w.mem, of which n bytes are done
Consumed(w, n) == [c |-> w.c, buf |-> SubSeq(w.mem, n + 1, Len(w.mem)), done |-> FALSE]

\* one pass of the while loop: s.buf is the unread part of auditbuffer (from
\* cursor, count bytes); s.done is set when the loop is left
process_step(s, now) ==
    LET c == s.c
        buf == s.buf
    IN
    IF s.done \/ Len(buf) < HeaderNeed THEN [s EXCEPT !.done = TRUE]
    ELSE IF ValidHeader(buf)
    THEN
      LET len == DecLE(Bytes(buf, 2, 2))
          pid == DecLE(Bytes(buf, 8, 8))
          chunklen == PIPE_HEADER_SIZE + len
          bucket == buf[9]
          list == GetList(c.lists, bucket)
          existing == FindSlot(list, pid, 1)
          free == FindSlot(list, 0, 1)
          payload == Bytes(buf, PIPE_HEADER_SIZE, len)
          rest == SubSeq(buf, chunklen + 1, Len(buf))
      IN IF Len(buf) < chunklen THEN [s EXCEPT !.done = TRUE]
         ELSE IF buf[PIPE_HEADER_SIZE] = CH_f
         THEN
           LET l2 == IF existing # 0
                     THEN [list EXCEPT ![existing].data = @ \o payload]
                     ELSE IF free # 0
                     THEN [list EXCEPT ![free] = [pid |-> pid, data |-> payload]]
                     ELSE Append(list, [pid |-> pid, data |-> payload])
           IN [c |-> [c EXCEPT !.lists = SetList(@, bucket, l2)], buf |-> rest,
               done |-> FALSE]
         ELSE IF existing # 0
         THEN
           LET l2 == [list EXCEPT ![existing] = [pid |-> 0, data |-> <<>>]]
           IN [c |-> [WriteRecord(c, list[existing].data \o payload, now)
                         EXCEPT !.lists = SetList(@, bucket, l2)],
               buf |-> rest, done |-> FALSE]
         ELSE
           \* written from the read buffer itself: the stamps land in it
           Consumed(pgaudit_write_file(c, SubSeq(buf, PIPE_HEADER_SIZE + 1, Len(buf)),
                                       len, now), len)
    ELSE Consumed(pgaudit_write_file(c, buf, ScanNul(buf), now), ScanNul(buf))

RECURSIVE process_passes(_, _, _)
\* up to n passes of the loop, stopping when it is left
process_passes(s, n, now) ==
    IF s.done \/ n = 0 THEN s
    ELSE IF n = 1 THEN process_step(s, now)
    ELSE LET h == process_passes(s, n \div 2, now)
         IN IF h.done THEN h ELSE process_passes(h, n - (n \div 2), now)

\* process_pipe_input(auditbuffer, &bytes_in_auditbuffer): every pass but the
\* last consumes a byte at least; what is left is left-justified in the buffer
process_pipe_input(c, auditbuffer, now) ==
    process_passes([c |-> c, buf |-> auditbuffer, done |-> FALSE],
                   Len(auditbuffer) + 1, now)

SetMin(S) == CHOOSE x \in S : \A y \in S : x <= y

RECURSIVE flush_list(_, _, _, _)
\* one bucket's list, slot by slot
flush_list(c, bucket, i, now) ==
    LET list == GetList(c.lists, bucket)
    IN IF i > Len(list) THEN c
       ELSE IF list[i].pid # 0
       THEN LET l2 == [list EXCEPT ![i] = [pid |-> 0, data |-> <<>>]]
            IN flush_list([WriteRecord(c, list[i].data, now)
                              EXCEPT !.lists = SetList(@, bucket, l2)],
                          bucket, i + 1, now)
       ELSE flush_list(c, bucket, i + 1, now)

RECURSIVE flush_buckets(_, _, _)
\* the buckets in index order
flush_buckets(c, todo, now) ==
    IF todo = {} THEN c
    ELSE LET b == SetMin(todo)
         IN flush_buckets(flush_list(c, b, 1, now), todo \ {b}, now)

\* what is left in auditbuffer goes out as it is
flush_rest(c, auditbuffer, now) ==
    IF Len(auditbuffer) > 0 THEN WriteRecord(c, auditbuffer, now) ELSE c

\* flush_pipe_input(auditbuffer, &bytes_in_auditbuffer); the buffer is empty after
flush_pipe_input(c, auditbuffer, now) ==
    flush_rest(flush_buckets(c, DOMAIN c.lists, now), auditbuffer, now)

(***************************************************************************)
(* The audit file routines.                                                *)
(***************************************************************************)
SPACE_INTERVAL_SIZE == 10485760

\* SPACE_MAXIMUM_SIZE (1024 * 1024 * 1024 * 1024L bytes), counted in KB
SPACE_MAXIMUM_KB == 1073741824

\* total <= SPACE_MAXIMUM_SIZE
WithinMaximumSize(total) ==
    \/ total \div 1024 < SPACE_MAXIMUM_KB
    \/ total \div 1024 = SPACE_MAXIMUM_KB /\ total % 1024 = 0

\* a >= b as the code compares them, both taken as uint64
U64GE(a, b) == a < 0 \/ a >= b

\* auditfile_open(timestamp, "a", allow_errors); res is what fopen answers.
\* A stream opened for append starts at the end of the file.
auditfile_open(c, timestamp, res) ==
    LET fnum == c.tbl.data[c.tbl.curidx].filenum
        exist == fnum \in DOMAIN c.files
    IN IF res = "ok"
       THEN LET files2 == IF exist THEN c.files
                          ELSE [x \in DOMAIN c.files \cup {fnum} |->
                                   IF x = fnum THEN <<>> ELSE c.files[x]]
                t1 == IF exist THEN c.tbl
                      ELSE [c.tbl EXCEPT !.data[c.tbl.curidx].ctime = timestamp]
                t2 == [t1 EXCEPT !.count = AUDIT_COUNT(t1)]
            IN pgaudit_update_indexfile(
                   [c EXCEPT !.files = files2, !.tbl = t2,
                             !.fh = [open |-> TRUE, fnum |-> fnum, linked |-> TRUE,
                                     pos |-> Len(files2[fnum])]])
       ELSE [c EXCEPT !.fh = ClosedFile]

auditfile_close(c) ==
    IF ~c.fh.open THEN c
    ELSE LET cur == c.tbl.curidx
             nxt == (cur + 1) % c.tbl.maxnum
             fnum == c.tbl.data[cur].filenum + 1
             t1 == [c.tbl EXCEPT !.data[cur].filesize = ftell(c)]
             t2 == [t1 EXCEPT !.curidx = nxt, !.data[nxt].filenum = fnum]
         IN [c EXCEPT !.tbl = t2, !.totalspace = @ + ftell(c), !.fh = ClosedFile]

\* a file opened at position 0 gets the "create a new audit file" record
report_if_new(c, now) ==
    IF ftell(c) = 0 THEN audit_report_internal(c, STR_file, STR_create, now) ELSE c

\* auditfile_init(): an open failure here is FATAL and is not modelled
auditfile_init(c, now) ==
    IF c.fh.open THEN c
    ELSE report_if_new(auditfile_open(c, now, "ok"), now)

\* (a variant for C33: the planned time is aligned to GMT)
set_next_rotation_time_gmt(c, now) ==
    IF c.guc.Audit_RotationAge <= 0 THEN c
    ELSE LET rotinterval == c.guc.Audit_RotationAge * SECS_PER_MINUTE
         IN [c EXCEPT !.next_rotation_time = now - (now % rotinterval) + rotinterval]

set_next_rotation_time(c, now) ==
    IF c.guc.Audit_RotationAge <= 0 THEN c
    ELSE LET rotinterval == c.guc.Audit_RotationAge * SECS_PER_MINUTE
             n1 == now + c.guc.gmtoff
             n2 == n1 - (n1 % rotinterval)
         IN [c EXCEPT !.next_rotation_time = n2 + rotinterval - c.guc.gmtoff]

\* auditfile_rotate once auditfile_open has answered res
rotate_opened(c, now, res) ==
    IF res # "ok"
    THEN IF res \notin {"ENFILE", "EMFILE"}
         THEN [c EXCEPT !.rotation_disabled = TRUE]
         ELSE c
    ELSE set_next_rotation_time(audit_report_internal(c, STR_file, STR_create, now), now)

\* (a variant for C18: the new file is named after the time of the rotation)
auditfile_rotate_now(c, time_based_rotation, size_based_rotation, now, res) ==
    LET c0 == [c EXCEPT !.rotation_requested = FALSE]
    IN IF time_based_rotation \/ size_based_rotation
       THEN rotate_opened(auditfile_open(auditfile_close(c0), now, res), now, res)
       ELSE set_next_rotation_time(c0, now)

auditfile_rotate(c, time_based_rotation, size_based_rotation, now, res) ==
    LET c0 == [c EXCEPT !.rotation_requested = FALSE]
        fntime == IF time_based_rotation THEN c.next_rotation_time ELSE now
    IN IF time_based_rotation \/ size_based_rotation
       THEN rotate_opened(auditfile_open(auditfile_close(c0), fntime, res), now, res)
       ELSE set_next_rotation_time(c0, now)

\* "remove an audit file(number: %u)"
RemoveMessage(filenum) == STR_remove \o Dec(filenum) \o <<41>>

RECURSIVE cleanup_loop(_, _, _, _, _)
\* the end of a pass of the loop that removed slot index
cleanup_next(c, index, filesize, now, badnum) ==
    IF index = c.tbl.curidx THEN c
    ELSE cleanup_loop(c, c.tbl.begidx, filesize, now, badnum)

\* a variant that keeps every victim
cleanup_loop_kept(c, index, filesize, now, badnum) == c

\* the while loop of pgaudit_cleanup; unlink fails on the file numbered badnum
cleanup_loop(c, index, filesize, now, badnum) ==
    LET T == c.guc.Audit_RemainThreshold
        limit == c.guc.Audit_SpaceLimit * 1024
        remain_time == c.guc.Audit_RemainAge * SECS_PER_DAY
        item == c.tbl.data[index]
        next == c.tbl.data[(index + 1) % c.tbl.maxnum]
        total == c.totalspace + filesize
        timecase == /\ c.tbl.count <= T
                    /\ c.guc.Audit_CleanupPolicy = 0
                    /\ remain_time # 0
                    /\ WithinMaximumSize(total)
        warn == U64GE(total - limit, c.beyond)
        c1 == IF timecase /\ warn THEN [c EXCEPT !.beyond = @ + SPACE_INTERVAL_SIZE] ELSE c
        keep == \/ remain_time >= c.tbl.last_audit_time - item.ctime
                \/ remain_time > c.tbl.last_audit_time - next.ctime
        exists == item.filenum \in DOMAIN c.files
    IN IF ~(U64GE(total, limit) \/ c.tbl.count > T) THEN c
       ELSE IF timecase /\ keep THEN c1
       ELSE IF exists /\ item.filenum = badnum THEN c1
       ELSE
         LET files2 == [x \in DOMAIN c.files \ {item.filenum} |-> c.files[x]]
             fh2 == IF c.fh.open /\ c.fh.fnum = item.filenum
                    THEN [c.fh EXCEPT !.linked = FALSE] ELSE c.fh
             t1 == [c.tbl EXCEPT !.count = IF @ > 0 THEN @ - 1 ELSE @,
                                 !.begidx = (index + 1) % c.tbl.maxnum,
                                 !.data[index] = AuditIndexItem(0, 0, 0)]
             c2 == [c1 EXCEPT !.files = files2, !.fh = fh2, !.tbl = t1,
                              !.totalspace = @ - item.filesize,
                              !.removed = Append(@, [filenum |-> item.filenum,
                                                     ctime |-> item.ctime,
                                                     last |-> c.tbl.last_audit_time,
                                                     index |-> index,
                                                     curidx |-> c.tbl.curidx,
                                                     open |-> c.fh.open /\ c.fh.linked
                                                              /\ c.fh.fnum = item.filenum,
                                                     count |-> c.tbl.count,
                                                     filesize |-> filesize,
                                                     total |-> total])]
         IN cleanup_next(audit_report_internal(pgaudit_update_indexfile(c2), STR_file,
                                               RemoveMessage(item.filenum), now),
                         index, filesize, now, badnum)

\* a variant that removes nothing
pgaudit_cleanup_skipped(c, now, badnum) == c

pgaudit_cleanup(c, now, badnum) ==
    cleanup_loop(c, c.tbl.begidx, IF c.fh.open THEN ftell(c) ELSE 0, now, badnum)

(***************************************************************************)
(* The index table at start-up and on a changed threshold.                 *)
(***************************************************************************)
\* pgaudit_read_indexfile: the table the file holds, when it holds one
pgaudit_read_indexfile(c) ==
    IF c.indexfile.kind = "table"
    THEN [found |-> TRUE, tbl |-> c.indexfile.tbl]
    ELSE [found |-> FALSE, tbl |-> NewIndexTable(1)]

RECURSIVE SumFilesize(_, _)
\* the do-while of pgaudit_indextbl_init: filesize summed from index to curidx
SumFilesize(tbl, index) ==
    tbl.data[index].filesize +
    (IF index = tbl.curidx THEN 0 ELSE SumFilesize(tbl, (index + 1) % tbl.maxnum))

RECURSIVE CopyItems_curidx_kept(_, _, _, _)
\* a variant that leaves curidx of the new table at 0
CopyItems_curidx_kept(old, new, index, pos) ==
    LET n1 == [new EXCEPT !.data[pos] = old.data[index], !.count = @ + 1]
    IN IF index = old.curidx THEN n1
       ELSE CopyItems_curidx_kept(old, n1, (index + 1) % old.maxnum, pos + 1)

RECURSIVE CopyItems(_, _, _, _)
\* the do-while that copies the old ring into the new table, from slot 0 on
CopyItems(old, new, index, pos) ==
    LET n1 == [new EXCEPT !.data[pos] = old.data[index], !.count = @ + 1]
    IN IF index = old.curidx THEN n1
       ELSE CopyItems(old, [n1 EXCEPT !.curidx = (@ + 1) % n1.maxnum],
                      (index + 1) % old.maxnum, pos + 1)

\* the copy writes past the new table when the old ring holds more than it has room for
CopyOverflows(old, newmax) == old.count > 0 /\ AUDIT_COUNT(old) > newmax

\* the last part: the table copied into one of the configured size
indextbl_resize(c, old_maxnum) ==
    LET T == c.guc.Audit_RemainThreshold
    IN IF old_maxnum # T + 1
       THEN IF CopyOverflows(c.tbl, T + 1)
            THEN [c EXCEPT !.crashed = TRUE]
            ELSE pgaudit_update_indexfile(
                     [c EXCEPT !.tbl = IF c.tbl.count > 0
                                       THEN CopyItems(c.tbl, NewIndexTable(T + 1),
                                                      c.tbl.begidx, 0)
                                       ELSE NewIndexTable(T + 1)])
       ELSE c

\* the middle part, with the file open: the totals, and a retention pass when
\* the table is to shrink
indextbl_totals(c, now, badnum) ==
    LET T == c.guc.Audit_RemainThreshold
        total == SumFilesize(c.tbl, c.tbl.begidx)
        c2 == [c EXCEPT !.totalspace = total,
                        !.beyond = (total \div SPACE_INTERVAL_SIZE) * SPACE_INTERVAL_SIZE
                                   + SPACE_INTERVAL_SIZE]
    IN indextbl_resize(IF c.tbl.maxnum > T + 1
                       THEN pgaudit_cleanup([c2 EXCEPT !.indexfile = IndexAbsent],
                                            now, badnum)
                       ELSE c2,
                       c.tbl.maxnum)

pgaudit_indextbl_init(c, now, badnum) ==
    LET rd == pgaudit_read_indexfile(c)
    IN IF ~rd.found
       THEN auditfile_init([c EXCEPT !.tbl = NewIndexTable(c.guc.Audit_RemainThreshold + 1)],
                           now)
       ELSE indextbl_totals(auditfile_init([c EXCEPT !.tbl = rd.tbl], now), now, badnum)

(***************************************************************************)
(* pg_query_audit and pg_delete_audit: the scans a session runs over the   *)
(* index file and the audit files of the directory.                        *)
(***************************************************************************)
UNIX_TO_POSTGRES_EPOCH_SECS == 946684800

USECS_PER_SEC == 1000000

\* time_t_to_timestamptz (utils/adt/timestamp.cpp, integer timestamps): seconds
\* since 1970 to microseconds since 2000.  A result wider than MaxInt is
\* given as MaxInt (or its negative).
time_t_to_timestamptz(tm) ==
    LET secs == tm - UNIX_TO_POSTGRES_EPOCH_SECS
    IN IF secs > MaxInt \div USECS_PER_SEC THEN MaxInt
       ELSE IF secs < 0 - (MaxInt \div USECS_PER_SEC) THEN 0 - MaxInt
       ELSE secs * USECS_PER_SEC

AuditTypeDescs ==
    <<"unknown", "login_success", "login_failed", "user_logout", "system_start",
      "system_stop", "system_recover", "system_switch", "lock_user", "unlock_user",
      "grant_role", "revoke_role", "user_violation", "ddl_database", "ddl_directory",
      "ddl_tablespace", "ddl_schema", "ddl_user", "ddl_table", "ddl_index", "ddl_view",
      "ddl_trigger", "ddl_function", "ddl_resourcepool", "ddl_workload",
      "ddl_serverforhadoop", "ddl_datasource", "ddl_nodegroup", "ddl_rowlevelsecurity",
      "ddl_synonym", "ddl_type", "ddl_textsearch", "dml_action", "dml_action_select",
      "internal_event", "function_exec", "copy_to", "copy_from", "set_parameter">>

AuditTypeDesc(type) ==
    IF type > 0 /\ type < Len(AuditTypeDescs) THEN AuditTypeDescs[type + 1]
    ELSE AuditTypeDescs[1]

AuditResultDescs == <<"unknown", "ok", "failed">>

AuditResultDesc(type) ==
    IF type > 0 /\ type < Len(AuditResultDescs) THEN AuditResultDescs[type + 1]
    ELSE AuditResultDescs[1]

\* a variant that tests the signature only
ValidAuditHdr_sign_only(h) ==
    /\ h[1] = CH_A
    /\ h[2] = CH_U

\* the header checks of both scans: 'A' 'U', version 0, PGAUDIT_QUERY_COLS fields
ValidAuditHdr(h) ==
    /\ h[1] = CH_A
    /\ h[2] = CH_U
    /\ DecLE(Bytes(h, 2, 2)) = 0
    /\ DecLE(Bytes(h, 4, 2)) = PGAUDIT_QUERY_COLS

HdrFlags(h) == DecLE(Bytes(h, 6, 2))

HdrTime(h) == DecLE(Bytes(h, OFF_time, 8))

HdrSize(h) == DecLE(Bytes(h, OFF_size, 4))

RECURSIVE string_field_loop(_, _, _, _, _)
\* the do-while of pgaudit_string_field; field is an offset into adata, and
\* the answer is the offset of the string or -1 for NULL.  datalen is a
\* uint32: below zero it has wrapped to a value no size exceeds.
string_field_loop(adata, field, datalen, index, num) ==
    IF field + 4 > Len(adata) THEN -1
    ELSE LET size == DecLE(Bytes(adata, field, 4))
             left == datalen - 4
         IN IF left >= 0 /\ size > left THEN -1
            ELSE IF index = num THEN (IF size = 0 THEN -1 ELSE field + 4)
            ELSE string_field_loop(adata, field + 4 + size, left - size, index + 1, num)

pgaudit_string_field(adata, num) ==
    string_field_loop(adata, AUDIT_HEADER_SIZE, HdrSize(adata) - AUDIT_HEADER_SIZE, 0, num)

STR_null == <<110,117,108,108>>

\* CStringGetTextDatum(field ? field : "null"): the bytes up to the NUL
FieldText(adata, field) ==
    IF field < 0 THEN STR_null
    ELSE LET n == CHOOSE k \in 0..(Len(adata) - field) :
                      /\ k = Len(adata) - field \/ adata[field + k + 1] = 0
                      /\ \A j \in 0..(k - 1) : adata[field + j + 1] # 0
         IN Bytes(adata, field, n)

\* the values of one row; at is where the record lies (kept for the properties)
AuditRow(adata, datetime, at) ==
    [time |-> datetime,
     type |-> AuditTypeDesc(DecLE(Bytes(adata, SIZEOF_AuditMsgHdr, 4))),
     result |-> AuditResultDesc(DecLE(Bytes(adata, SIZEOF_AuditMsgHdr + 4, 4))),
     fields |-> [i \in 0..(PGAUDIT_QUERY_COLS - 4) |->
                    FieldText(adata, pgaudit_string_field(adata, i))],
     at |-> at]

RECURSIVE query_scan_any_flags(_, _, _, _, _)
\* a variant that does not look at the flags of a record
query_scan_any_flags(file, fnum, o, begtime, endtime) ==
    IF Len(file) - o < SIZEOF_AuditMsgHdr THEN <<>>
    ELSE LET header == Bytes(file, o, SIZEOF_AuditMsgHdr)
             size == HdrSize(header)
             datetime == time_t_to_timestamptz(HdrTime(header))
         IN IF ~ValidAuditHdr(header) THEN <<>>
            ELSE IF size <= SIZEOF_AuditMsgHdr \/ Len(file) - o < size THEN <<>>
            ELSE (IF datetime >= begtime /\ datetime < endtime
                  THEN <<AuditRow(Bytes(file, o, size), datetime,
                                  [fnum |-> fnum, off |-> o])>>
                  ELSE <<>>)
                 \o query_scan_any_flags(file, fnum, o + size, begtime, endtime)

RECURSIVE query_scan(_, _, _, _, _)
\* the do-while of pgaudit_query_file from offset o of the file
query_scan(file, fnum, o, begtime, endtime) ==
    IF Len(file) - o < SIZEOF_AuditMsgHdr THEN <<>>
    ELSE LET header == Bytes(file, o, SIZEOF_AuditMsgHdr)
             size == HdrSize(header)
             datetime == time_t_to_timestamptz(HdrTime(header))
         IN IF ~ValidAuditHdr(header) THEN <<>>
            ELSE IF size <= SIZEOF_AuditMsgHdr \/ Len(file) - o < size THEN <<>>
            ELSE (IF /\ datetime >= begtime
                     /\ datetime < endtime
                     /\ HdrFlags(header) = AUDIT_TUPLE_NORMAL
                  THEN <<AuditRow(Bytes(file, o, size), datetime,
                                  [fnum |-> fnum, off |-> o])>>
                  ELSE <<>>)
                 \o query_scan(file, fnum, o + size, begtime, endtime)

pgaudit_query_file(files, fnum, begtime, endtime) ==
    IF fnum \notin DOMAIN files THEN <<>>
    ELSE query_scan(files[fnum], fnum, 0, begtime, endtime)

\* a variant that brackets a slot of negative ctime by the magnitude of it
pgaudit_check_system_by_time(t, begtime, endtime, index) ==
    LET curr_filetime ==
            time_t_to_timestamptz(IF t.data[index].ctime < 0 THEN 0 - t.data[index].ctime
                                  ELSE t.data[index].ctime)
    IN curr_filetime <= begtime \/ curr_filetime <= endtime

pgaudit_check_system(t, begtime, endtime, index) ==
    LET item == t.data[index]
        next == t.data[(index + 1) % t.maxnum]
        curr_filetime == time_t_to_timestamptz(item.ctime)
        next_filetime == time_t_to_timestamptz(next.ctime)
    IN IF item.ctime > 0
       THEN IF index = t.curidx
            THEN curr_filetime <= begtime \/ curr_filetime <= endtime
            ELSE IF next.ctime > 0
                 THEN (IF curr_filetime > begtime THEN curr_filetime ELSE begtime)
                      <= (IF next_filetime < endtime THEN next_filetime ELSE endtime)
                 ELSE curr_filetime <= begtime \/ curr_filetime <= endtime
       ELSE TRUE

RECURSIVE query_walk(_, _, _, _, _)
\* the do-while of pg_query_audit from slot index to curidx
query_walk(t, files, index, begtime, endtime) ==
    LET here == IF pgaudit_check_system(t, begtime, endtime, index)
                THEN pgaudit_query_file(files, t.data[index].filenum, begtime, endtime)
                ELSE <<>>
    IN IF index = t.curidx THEN here
       ELSE here \o query_walk(t, files, (index + 1) % t.maxnum, begtime, endtime)

\* the rows pg_query_audit(begtime, endtime) materialises over the directory
pg_query_audit(indexf, files, begtime, endtime) ==
    IF begtime < endtime /\ indexf.kind = "table" /\ indexf.tbl.count > 0
    THEN query_walk(indexf.tbl, files, indexf.tbl.begidx, begtime, endtime)
    ELSE <<>>

RECURSIVE delete_scan_any_time(_, _, _, _, _, _)
\* a variant that tombstones the live records of any time
delete_scan_any_time(file, pos, header, begtime, endtime, n) ==
    LET nread == Min(SIZEOF_AuditMsgHdr, Len(file) - pos)
        hdr == Poke(header, 0, Bytes(file, pos, nread))
        hit == HdrFlags(hdr) = AUDIT_TUPLE_NORMAL
        dead == Poke(hdr, 6, LE(AUDIT_TUPLE_DEAD, 2))
        back == pos + nread - SIZEOF_AuditMsgHdr
        next == pos + nread + HdrSize(hdr) - SIZEOF_AuditMsgHdr
    IN IF n = 0 \/ nread <= 0 THEN file
       ELSE IF ~ValidAuditHdr(hdr) THEN file
       ELSE IF hit /\ back < 0 THEN file
       ELSE IF next < 0 THEN (IF hit THEN Poke(file, back, dead) ELSE file)
       ELSE delete_scan_any_time(IF hit THEN Poke(file, back, dead) ELSE file, next,
                                 IF hit THEN dead ELSE hdr, begtime, endtime, n - 1)

RECURSIVE delete_scan(_, _, _, _, _, _)
\* the do-while of pgaudit_delete_file with the descriptor at pos.  header is
\* the local struct: a read that gets fewer bytes than it asked for leaves the
\* rest of it as it was.  n bounds the passes (a size below that of the
\* header can send the descriptor back without end).
delete_scan(file, pos, header, begtime, endtime, n) ==
    LET nread == Min(SIZEOF_AuditMsgHdr, Len(file) - pos)
        hdr == Poke(header, 0, Bytes(file, pos, nread))
        datetime == time_t_to_timestamptz(HdrTime(hdr))
        hit == /\ datetime >= begtime
               /\ datetime < endtime
               /\ HdrFlags(hdr) = AUDIT_TUPLE_NORMAL
        dead == Poke(hdr, 6, LE(AUDIT_TUPLE_DEAD, 2))
        back == pos + nread - SIZEOF_AuditMsgHdr
        next == pos + nread + HdrSize(hdr) - SIZEOF_AuditMsgHdr
    IN IF n = 0 \/ nread <= 0 THEN file
       ELSE IF ~ValidAuditHdr(hdr) THEN file
       ELSE IF hit /\ back < 0 THEN file
       ELSE IF next < 0 THEN (IF hit THEN Poke(file, back, dead) ELSE file)
       ELSE delete_scan(IF hit THEN Poke(file, back, dead) ELSE file, next,
                        IF hit THEN dead ELSE hdr, begtime, endtime, n - 1)

\* pgaudit_delete_file; pad is what the local header holds before the first read
pgaudit_delete_file(files, fnum, begtime, endtime, pad) ==
    IF fnum \notin DOMAIN files THEN files
    ELSE [files EXCEPT ![fnum] =
              delete_scan(@, 0, Fill(SIZEOF_AuditMsgHdr, pad), begtime, endtime,
                          Len(@) \div SIZEOF_AuditMsgHdr + 2)]

RECURSIVE delete_walk(_, _, _, _, _, _)
\* the do-while of pg_delete_audit from slot index to curidx
delete_walk(t, files, index, begtime, endtime, pad) ==
    LET here == IF pgaudit_check_system(t, begtime, endtime, index)
                THEN pgaudit_delete_file(files, t.data[index].filenum, begtime, endtime, pad)
                ELSE files
    IN IF index = t.curidx THEN here
       ELSE delete_walk(t, here, (index + 1) % t.maxnum, begtime, endtime, pad)

\* the directory after pg_delete_audit(begtime, endtime)
pg_delete_audit(indexf, files, begtime, endtime, pad) ==
    IF begtime < endtime /\ indexf.kind = "table" /\ indexf.tbl.count > 0
    THEN delete_walk(indexf.tbl, files, indexf.tbl.begidx, begtime, endtime, pad)
    ELSE files

(***************************************************************************)
(* State.                                                                  *)
(***************************************************************************)
VARIABLES
    conf,                 \* the configuration file: the values a reload gives
    guc,                  \* the values the collector runs under
    clock,                \* what time(NULL) answers
    stackpad,             \* what uninitialised padding bytes hold in this run
    pipe,                 \* bytes written to the pipe and not yet read
    writers,              \* is the write end of the pipe still open somewhere
    backend,              \* per backend: the chunks it has still to write
    pc,                   \* the collector: "down", "top", "wait", "exited", "crashed"
    auditbuffer,          \* the bytes_in_auditbuffer valid bytes of auditbuffer
    loopnow,              \* the local variable now of PgAuditorMain
    currentAuditRotationAge,
    currentAuditRemainThreshold,
    got_SIGHUP,
    need_exit,
    pipe_eof_seen,
    latch,                \* sysAuditorLatch is set
    tbl,
    totalspace,
    beyond,
    fh,
    files,
    indexfile,
    lists,
    rotation_requested,
    rotation_disabled,
    next_rotation_time,
    removed,              \* history: the files unlinked by the latest step
    wlog,                 \* history: per backend, the write() calls made and how they ended
    sent,                 \* history: per backend, the records handed to write_pipe_chunks
    rows,                 \* the latest pg_query_audit: arguments, the directory it
                          \* read, the rows it returned
    snap                  \* history: the latest pg_delete_audit: arguments, the index
                          \* file, the directory before and after

ctxvars == <<tbl, totalspace, beyond, fh, files, indexfile, lists, rotation_requested,
             rotation_disabled, next_rotation_time, removed>>

sigvars == <<got_SIGHUP, need_exit, latch>>

loopvars == <<pc, auditbuffer, loopnow, currentAuditRotationAge,
              currentAuditRemainThreshold, pipe_eof_seen>>

envvars == <<conf, clock, stackpad>>

pipevars == <<pipe, writers, backend, wlog, sent>>

sqlvars == <<rows, snap>>

vars == <<envvars, guc, pipevars, loopvars, sigvars, ctxvars, sqlvars>>

\* the collector's memory and the directory as the record the routines work on
Ctx ==
    [guc |-> guc, pad |-> stackpad, tbl |-> tbl, totalspace |-> totalspace,
     beyond |-> beyond, fh |-> fh, files |-> files, indexfile |-> indexfile,
     lists |-> lists, rotation_requested |-> rotation_requested,
     rotation_disabled |-> rotation_disabled, next_rotation_time |-> next_rotation_time,
     removed |-> <<>>, crashed |-> FALSE, enospc |-> NoFault]

Commit(c) ==
    /\ guc' = c.guc
    /\ tbl' = c.tbl
    /\ totalspace' = c.totalspace
    /\ beyond' = c.beyond
    /\ fh' = c.fh
    /\ files' = c.files
    /\ indexfile' = c.indexfile
    /\ lists' = c.lists
    /\ rotation_requested' = c.rotation_requested
    /\ rotation_disabled' = c.rotation_disabled
    /\ next_rotation_time' = c.next_rotation_time
    /\ removed' = c.removed

(***************************************************************************)
(* The state pgaudit_start leaves: the pipe exists, the index file has     *)
(* been created if it was missing, the collector has not run yet.          *)
(***************************************************************************)
NoRows == [called |-> FALSE, begtime |-> 0, endtime |-> 0, dir |-> <<>>, out |-> <<>>]

NoSnap == [called |-> FALSE, begtime |-> 0, endtime |-> 0, index |-> IndexAbsent,
           before |-> <<>>, after |-> <<>>]

\* rows and snap tell of the statement that ran last, until another step is taken
ForgetSql ==
    /\ rows' = NoRows
    /\ snap' = NoSnap

InitWith(cf, now, pad, pids) ==
    /\ conf = cf
    /\ guc = cf
    /\ clock = now
    /\ stackpad = pad
    /\ pipe = <<>>
    /\ writers = TRUE
    /\ backend = [p \in pids |-> <<>>]
    /\ wlog = [p \in pids |-> <<>>]
    /\ sent = [p \in pids |-> <<>>]
    /\ pc = "down"
    /\ auditbuffer = <<>>
    /\ loopnow = 0
    /\ currentAuditRotationAge = 0
    /\ currentAuditRemainThreshold = 0
    /\ got_SIGHUP = FALSE
    /\ need_exit = FALSE
    /\ pipe_eof_seen = FALSE
    /\ latch = FALSE
    /\ tbl = NewIndexTable(1)
    /\ totalspace = 0
    /\ beyond = 0
    /\ fh = ClosedFile
    /\ files = <<>>
    /\ indexfile = IndexEmpty
    /\ lists = <<>>
    /\ rotation_requested = FALSE
    /\ rotation_disabled = FALSE
    /\ next_rotation_time = 0
    /\ removed = <<>>
    /\ rows = NoRows
    /\ snap = NoSnap

(***************************************************************************)
(* PgAuditorMain.                                                          *)
(***************************************************************************)
\* the collector after the step that left c
Settle(c, nextpc) ==
    /\ Commit(c)
    /\ pc' = IF c.crashed THEN "crashed" ELSE nextpc

\* the prologue: a fresh thread, the index table, the first rotation time
Start(badnum) ==
    /\ pc = "down"
    /\ LET c0 == [Ctx EXCEPT !.guc = conf, !.totalspace = 0, !.beyond = 0, !.fh = ClosedFile,
                             !.lists = <<>>, !.rotation_requested = FALSE,
                             !.rotation_disabled = FALSE, !.next_rotation_time = 0]
       IN \E c1 \in {pgaudit_indextbl_init(c0, clock, badnum)} :
              \E c2 \in {IF c1.crashed THEN c1 ELSE set_next_rotation_time(c1, clock)} :
                  Settle(c2, "top")
    /\ loopnow' = clock
    /\ currentAuditRotationAge' = conf.Audit_RotationAge
    /\ currentAuditRemainThreshold' = conf.Audit_RemainThreshold
    /\ auditbuffer' = <<>>
    /\ pipe_eof_seen' = FALSE
    /\ UNCHANGED <<envvars, pipevars, sigvars>>
    /\ ForgetSql

\* what follows the main loop: a last retention pass, the index file, fclose
ExitPath(c, now, badnum) ==
    [pgaudit_update_indexfile(pgaudit_cleanup(c, now, badnum)) EXCEPT !.fh = ClosedFile]

\* (a variant for C16: rotation re-enabled, none forced)
sighup_reenable_no_request(c) ==
    IF c.rotation_disabled THEN [c EXCEPT !.rotation_disabled = FALSE] ELSE c

\* the end of the SIGHUP branch: rotation re-enabled and forced
sighup_reenable(c) ==
    IF c.rotation_disabled
    THEN [c EXCEPT !.rotation_disabled = FALSE, !.rotation_requested = TRUE]
    ELSE c

\* the SIGHUP branch of the loop
ServeSighup(c, now, badnum) ==
    LET c1 == [c EXCEPT !.guc = conf]
        c2 == IF currentAuditRotationAge # conf.Audit_RotationAge
              THEN set_next_rotation_time(c1, now) ELSE c1
    IN sighup_reenable(IF currentAuditRemainThreshold # conf.Audit_RemainThreshold
                       THEN pgaudit_indextbl_init(pgaudit_update_indexfile(c2), now, badnum)
                       ELSE c2)

\* (a variant for C17: the size check leaves out the space limit)
ServeRotation_no_limit(c, now, res, badnum) ==
    LET timed == c.guc.Audit_RotationAge > 0 /\ ~c.rotation_disabled
        time_based_rotation == timed /\ now >= c.next_rotation_time
        c1 == IF time_based_rotation THEN [c EXCEPT !.rotation_requested = TRUE] ELSE c
        sized == ~c1.rotation_requested /\ c.guc.Audit_RotationSize > 0
                 /\ ~c.rotation_disabled
        size_based_rotation == /\ sized
                               /\ ftell(c) >= c.guc.Audit_RotationSize * 1024
        c2 == IF size_based_rotation THEN [c1 EXCEPT !.rotation_requested = TRUE] ELSE c1
    IN IF sized /\ ~c.fh.open
       THEN [c EXCEPT !.crashed = TRUE]       \* ftell(NULL)
       ELSE pgaudit_cleanup(
                IF c2.rotation_requested
                THEN auditfile_rotate(c2, time_based_rotation,
                         size_based_rotation \/ ~time_based_rotation, now, res)
                ELSE c2,
                now, badnum)

\* the rotation checks, the rotation and the retention pass of one iteration
ServeRotation(c, now, res, badnum) ==
    LET timed == c.guc.Audit_RotationAge > 0 /\ ~c.rotation_disabled
        time_based_rotation == timed /\ now >= c.next_rotation_time
        c1 == IF time_based_rotation THEN [c EXCEPT !.rotation_requested = TRUE] ELSE c
        sized == ~c1.rotation_requested /\ c.guc.Audit_RotationSize > 0
                 /\ ~c.rotation_disabled
        size_based_rotation == /\ sized
                               /\ \/ ftell(c) >= c.guc.Audit_RotationSize * 1024
                                  \/ ftell(c) >= c.guc.Audit_SpaceLimit * 1024
        c2 == IF size_based_rotation THEN [c1 EXCEPT !.rotation_requested = TRUE] ELSE c1
    IN IF sized /\ ~c.fh.open
       THEN [c EXCEPT !.crashed = TRUE]       \* ftell(NULL)
       ELSE pgaudit_cleanup(
                IF c2.rotation_requested
                THEN auditfile_rotate(c2, time_based_rotation,
                         size_based_rotation \/ ~time_based_rotation, now, res)
                ELSE c2,
                now, badnum)

\* one pass from the top of the loop to WaitLatchOrSocket
LoopTop(res, badnum) ==
    /\ pc = "top"
    /\ latch' = FALSE
    /\ IF need_exit
       THEN /\ \E c2 \in {ExitPath(Ctx, clock, badnum)} : Settle(c2, "exited")
            /\ UNCHANGED <<got_SIGHUP, loopnow, currentAuditRotationAge,
                           currentAuditRemainThreshold>>
       ELSE \E c1 \in {IF got_SIGHUP THEN ServeSighup(Ctx, clock, badnum) ELSE Ctx} :
               /\ \E c2 \in {IF c1.crashed THEN c1
                              ELSE ServeRotation(c1, clock, res, badnum)} :
                      Settle(c2, "wait")
               /\ got_SIGHUP' = FALSE
               /\ loopnow' = IF c1.guc.Audit_RotationAge > 0 /\ ~c1.rotation_disabled
                             THEN clock ELSE loopnow
               /\ currentAuditRotationAge' =
                      IF got_SIGHUP THEN c1.guc.Audit_RotationAge
                      ELSE currentAuditRotationAge
               /\ currentAuditRemainThreshold' =
                      IF got_SIGHUP THEN c1.guc.Audit_RemainThreshold
                      ELSE currentAuditRemainThreshold
    /\ UNCHANGED <<envvars, pipevars, need_exit, auditbuffer, pipe_eof_seen>>
    /\ ForgetSql

\* WaitLatchOrSocket answers readable with bytes in the pipe: read and process them
ReadPipeFrom(c0) ==
    /\ pc = "wait"
    /\ Len(pipe) > 0
    /\ LET room == READ_BUF_SIZE - Len(auditbuffer)
           n == Min(Len(pipe), room)
       IN /\ n > 0
          /\ \E r \in {process_pipe_input(c0, auditbuffer \o SubSeq(pipe, 1, n), clock)} :
                /\ Settle(r.c, "top")
                /\ auditbuffer' = r.buf
          /\ pipe' = SubSeq(pipe, n + 1, Len(pipe))
    /\ UNCHANGED <<envvars, writers, backend, wlog, sent, loopnow,
                   currentAuditRotationAge, currentAuditRemainThreshold, pipe_eof_seen,
                   sigvars>>
    /\ ForgetSql

ReadPipe == ReadPipeFrom(Ctx)

\* the same while the disk is full: the first write of the step meets ENOSPC
ReadPipeNoSpace(at, short) == ReadPipeFrom([Ctx EXCEPT !.enospc = [at |-> at, short |-> short]])

\* read() answers 0: every writer is gone.  Flush, leave the loop, exit.
PipeEof(badnum) ==
    /\ pc = "wait"
    /\ pipe = <<>>
    /\ ~writers
    /\ \E c2 \in {ExitPath(flush_pipe_input(Ctx, auditbuffer, clock), clock, badnum)} :
          Settle(c2, "exited")
    /\ auditbuffer' = <<>>
    /\ pipe_eof_seen' = TRUE
    /\ UNCHANGED <<envvars, pipevars, loopnow, currentAuditRotationAge,
                   currentAuditRemainThreshold, sigvars>>
    /\ ForgetSql

(***************************************************************************)
(* The backends: audit_report in a session, and its writes to the pipe.    *)
(***************************************************************************)
\* the pipe takes no more than this many bytes; a writer then waits
PipeCap == 4096

STR_user == <<117>>

STR_db == <<100,98>>

STR_app == <<103,115,113,108>>

STR_host == <<49,48,46,48,46,48,46,49>>

STR_port == <<53,52,51,50>>

STR_table == <<116,49>>

\* MyProcPort and the session of the backend with thread id pid
Port(pid) ==
    [connected |-> TRUE, userid |-> Dec(10), username |-> STR_user, dbname |-> STR_db,
     appname |-> STR_app, remotehost |-> STR_host,
     threadid |-> Dec(pid) \o <<CH_at>> \o Dec(0),
     localport |-> STR_port, remoteport |-> Dec(pid)]

\* audit_report in a backend: filtered by category, encoded, chunked; the
\* chunks are then written one by one (BackendWrite)
Report(p, type, result, object_name, detail_info) ==
    /\ writers
    /\ backend[p] = <<>>
    /\ ~audit_report_skips(conf)
    /\ audit_type_enabled(conf, type)
    /\ \E rec \in {audit_record(type, result, Port(p), object_name, detail_info,
                                 conf.PGXCNodeName, stackpad)} :
          /\ backend' = [backend EXCEPT ![p] = write_pipe_chunks(rec, Len(rec), p, stackpad)]
          /\ sent' = [sent EXCEPT ![p] = Append(@, rec)]
    /\ UNCHANGED <<envvars, guc, pipe, writers, wlog, loopvars, sigvars, ctxvars>>
    /\ ForgetSql

\* one write() of write_pipe_chunks; its result is ignored, the loop goes on
BackendWrite(p, ok) ==
    /\ writers
    /\ backend[p] # <<>>
    /\ Len(pipe) + Len(Head(backend[p])) <= PipeCap
    /\ pipe' = IF ok THEN pipe \o Head(backend[p]) ELSE pipe
    /\ backend' = [backend EXCEPT ![p] = Tail(@)]
    /\ wlog' = [wlog EXCEPT ![p] = Append(@, [chunk |-> Head(backend[p]), ok |-> ok])]
    /\ UNCHANGED <<envvars, guc, writers, sent, loopvars, sigvars, ctxvars>>
    /\ ForgetSql

\* a process that is not a backend writes to the pipe: a library of the
\* server writing to its stderr
StrayWrite(bytes) ==
    /\ writers
    /\ Len(pipe) + Len(bytes) <= PipeCap
    /\ pipe' = pipe \o bytes
    /\ UNCHANGED <<envvars, guc, writers, backend, wlog, sent, loopvars, sigvars, ctxvars>>
    /\ ForgetSql

\* the postmaster and every backend are gone: the write end is closed
CloseWriters ==
    /\ writers
    /\ writers' = FALSE
    /\ backend' = [p \in DOMAIN backend |-> <<>>]
    /\ UNCHANGED <<envvars, guc, pipe, wlog, sent, loopvars, sigvars, ctxvars>>
    /\ ForgetSql

(***************************************************************************)
(* Specification SpecPipe: two backends whose thread ids share a bucket    *)
(* report one record each, of several sizes, and the collector reads.      *)
(***************************************************************************)
STR_node == <<110,49>>

BaseConf ==
    [Audit_enabled |-> TRUE, Audit_Session |-> 0, Audit_ServerAction |-> 0,
     Audit_LockUser |-> 0, Audit_PrivilegeAdmin |-> 0, Audit_UserViolation |-> 0,
     Audit_DDL |-> 0, Audit_DML |-> 1, Audit_DML_SELECT |-> 0, Audit_Exec |-> 0,
     Audit_Copy |-> 0, Audit_Set |-> 0,
     Audit_RotationAge |-> 0, Audit_RotationSize |-> 0, Audit_SpaceLimit |-> 1048576,
     Audit_RemainThreshold |-> 10, Audit_RemainAge |-> 0, Audit_CleanupPolicy |-> 1,
     PGXCNodeName |-> STR_node, gmtoff |-> 0, current_mode |-> "NORMAL_MODE"]

PipePids == {7, 263}

\* lengths of detail_info: records of one chunk, of PIPE_MAX_PAYLOAD + 5 bytes,
\* of exactly PIPE_MAX_PAYLOAD bytes, and of two full chunks and more
PipeDetailLens == {20, 383, 388, 900}

PipeStart == 1000

InitPipe == InitWith(BaseConf, PipeStart, 170, PipePids)

NextPipe ==
    \/ Start(-1)
    \/ LoopTop("ok", -1)
    \/ ReadPipe
    \/ PipeEof(-1)
    \/ \E p \in PipePids, n \in PipeDetailLens :
          /\ sent[p] = <<>>
          /\ Report(p, AUDIT_DML_ACTION, AUDIT_OK, STR_table, Fill(n, 100 + (p % 16)))
    \/ \E p \in PipePids, ok \in BOOLEAN : BackendWrite(p, ok)
    \/ CloseWriters

SpecPipe == InitPipe /\ [][NextPipe]_vars

(***************************************************************************)
(* Time, the wake-ups of WaitLatchOrSocket, and the SQL functions.         *)
(***************************************************************************)
\* the wall clock moves on by d seconds, up to upto
Tick(d, upto) ==
    /\ clock + d <= upto
    /\ clock' = clock + d
    /\ UNCHANGED <<conf, stackpad, guc, pipevars, loopvars, sigvars, ctxvars>>
    /\ ForgetSql

\* the wait was given a timeout of next_rotation_time - now seconds (0 when
\* that time has passed) if time-based rotation is on, and none otherwise
TimeoutDue ==
    /\ guc.Audit_RotationAge > 0
    /\ ~rotation_disabled
    /\ clock >= Max(next_rotation_time, loopnow)

\* (a variant for C34: the wait does not look at the latch)
Wake_timeout_only ==
    /\ pc = "wait"
    /\ TimeoutDue
    /\ pc' = "top"
    /\ UNCHANGED <<envvars, guc, pipevars, auditbuffer, loopnow, currentAuditRotationAge,
                   currentAuditRemainThreshold, pipe_eof_seen, sigvars, ctxvars>>
    /\ ForgetSql

\* WaitLatchOrSocket comes back for the latch or the timeout: to the top
Wake ==
    /\ pc = "wait"
    /\ latch \/ TimeoutDue
    /\ pc' = "top"
    /\ UNCHANGED <<envvars, guc, pipevars, auditbuffer, loopnow, currentAuditRotationAge,
                   currentAuditRemainThreshold, pipe_eof_seen, sigvars, ctxvars>>
    /\ ForgetSql

\* a session of an audit administrator calls pg_query_audit(begtime, endtime)
Query(begtime, endtime) ==
    /\ rows' = [called |-> TRUE, begtime |-> begtime, endtime |-> endtime, dir |-> files,
                out |-> pg_query_audit(indexfile, files, begtime, endtime)]
    /\ snap' = NoSnap
    /\ UNCHANGED <<envvars, guc, pipevars, loopvars, sigvars, ctxvars>>

\* a session of an audit administrator calls pg_delete_audit(begtime, endtime)
Delete(begtime, endtime) ==
    /\ \E after \in {pg_delete_audit(indexfile, files, begtime, endtime, stackpad)} :
          /\ files' = after
          /\ snap' = [called |-> TRUE, begtime |-> begtime, endtime |-> endtime,
                      index |-> indexfile, before |-> files, after |-> after]
    /\ rows' = NoRows
    /\ UNCHANGED <<envvars, guc, pipevars, loopvars, sigvars,
                   tbl, totalspace, beyond, fh, indexfile, lists, rotation_requested,
                   rotation_disabled, next_rotation_time, removed>>

(***************************************************************************)
(* Specification SpecQuery: time-based rotation every minute, one backend, *)
(* a clock that moves on between any two steps, and a session that queries *)
(* and deletes.                                                            *)
(***************************************************************************)
QueryConf == [BaseConf EXCEPT !.Audit_RotationAge = 1]

QueryPid == 7

QueryStart == UNIX_TO_POSTGRES_EPOCH_SECS + 100

QueryTick == 30

QueryTicks == 2

QueryRecords == 2

\* the arguments the session uses: the instants the clock takes, and the
\* microsecond after one of them
QueryTimes ==
    {time_t_to_timestamptz(QueryStart + k * QueryTick) : k \in 0..1}
        \cup {time_t_to_timestamptz(QueryStart + QueryTick) + 1}

InitQuery == InitWith(QueryConf, QueryStart, 170, {QueryPid})

NextQuery ==
    \/ Start(-1)
    \/ LoopTop("ok", -1)
    \/ Wake
    \/ ReadPipe
    \/ Tick(QueryTick, QueryStart + QueryTicks * QueryTick)
    \/ /\ Len(sent[QueryPid]) < QueryRecords
       /\ Report(QueryPid, AUDIT_DML_ACTION, AUDIT_OK, STR_table, Fill(3, 100))
    \/ BackendWrite(QueryPid, TRUE)
    \/ \E b \in QueryTimes, e \in QueryTimes : Query(b, e)
    \/ \E b \in QueryTimes, e \in QueryTimes : Delete(b, e)

SpecQuery == InitQuery /\ [][NextQuery]_vars

(***************************************************************************)
(* Signals, a wall clock set back, and a restart of the collector.         *)
(***************************************************************************)
Running == pc \in {"top", "wait"}

\* the configuration file now gives cf, and the postmaster signals SIGHUP
\* (sigHupHandler)
Reload(cf) ==
    /\ Running
    /\ conf' = cf
    /\ got_SIGHUP' = TRUE
    /\ latch' = TRUE
    /\ UNCHANGED <<clock, stackpad, guc, pipevars, loopvars, need_exit, ctxvars>>
    /\ ForgetSql

\* pg_rotate_auditfile: SIGUSR1 (sigUsr1Handler), while the current file is
\* numbered below upto
SigUsr1(upto) ==
    /\ Running
    /\ tbl.data[tbl.curidx].filenum < upto
    /\ rotation_requested' = TRUE
    /\ latch' = TRUE
    /\ removed' = <<>>
    /\ UNCHANGED <<envvars, guc, pipevars, loopvars, got_SIGHUP, need_exit,
                   tbl, totalspace, beyond, fh, files, indexfile, lists,
                   rotation_disabled, next_rotation_time>>
    /\ ForgetSql

\* SIGQUIT from the postmaster (pgaudit_exit)
SigQuit ==
    /\ Running
    /\ ~need_exit
    /\ need_exit' = TRUE
    /\ latch' = TRUE
    /\ UNCHANGED <<envvars, guc, pipevars, loopvars, got_SIGHUP, ctxvars>>
    /\ ForgetSql

\* the wall clock is set back by d seconds, not below downto
Rewind(d, downto) ==
    /\ clock - d >= downto
    /\ clock' = clock - d
    /\ UNCHANGED <<conf, stackpad, guc, pipevars, loopvars, sigvars, ctxvars>>
    /\ ForgetSql

\* the collector is gone and is started again (pgaudit_start): by the
\* postmaster that is still there, with its pipe, or by a new one
Restart ==
    /\ pc \in {"exited", "crashed"}
    /\ pc' = "down"
    /\ pipe' = IF writers THEN pipe ELSE <<>>
    /\ writers' = TRUE
    /\ got_SIGHUP' = FALSE
    /\ need_exit' = FALSE
    /\ latch' = FALSE
    /\ UNCHANGED <<envvars, guc, backend, wlog, sent, auditbuffer, loopnow,
                   currentAuditRotationAge, currentAuditRemainThreshold, pipe_eof_seen,
                   ctxvars>>
    /\ ForgetSql

(***************************************************************************)
(* SpecRetain: a collector whose space limit binds (1 KB), under either    *)
(* cleanup policy, with rotation requests, terminate requests, a wall      *)
(* clock set back and restarts.                                            *)
(***************************************************************************)
RetainThreshold == 2
RetainPid == 7
RetainStart == UNIX_TO_POSTGRES_EPOCH_SECS + 100
RetainRecords == 2
RetainFiles == 2
RetainRewinds == 2
RetainStep == 10
RetainDetailLen == 350
RetainConf(policy, age) ==
    [BaseConf EXCEPT !.Audit_RotationSize = 1, !.Audit_SpaceLimit = 1,
                     !.Audit_RemainThreshold = RetainThreshold,
                     !.Audit_RemainAge = age, !.Audit_CleanupPolicy = policy]
RetainConfs == {RetainConf(1, 0), RetainConf(0, 1)}
InitRetain == \E cf \in RetainConfs : InitWith(cf, RetainStart, 170, {RetainPid})
NextRetain ==
    \/ Start(-1)
    \/ LoopTop("ok", -1)
    \/ Wake
    \/ ReadPipe
    \/ /\ Len(sent[RetainPid]) < RetainRecords
       /\ Report(RetainPid, AUDIT_DML_ACTION, AUDIT_OK, STR_table, Fill(RetainDetailLen, 100))
    \/ BackendWrite(RetainPid, TRUE)
    \/ SigUsr1(RetainFiles)
    \/ SigQuit
    \/ Rewind(RetainStep, RetainStart - RetainStep * RetainRewinds)
    \/ Restart
SpecRetain == InitRetain /\ [][NextRetain]_vars

(***************************************************************************)
(* SpecCount: a collector whose space limit never binds, with a fixed      *)
(* RemainThreshold, rotation requests whose fopen may fail, reloads,       *)
(* terminate requests and restarts.  Every unlink succeeds.                *)
(***************************************************************************)
CountFiles == 2
CountBytes == 400
CountThresholds == {1, 2}
CountResults == {"ok", "EACCES", "ENFILE"}
CountConf(T) == [BaseConf EXCEPT !.Audit_RotationSize = 1, !.Audit_RemainThreshold = T]
\* rotation requests stop once a file has grown to CountBytes
CountRoom == \A f \in DOMAIN files : Len(files[f]) < CountBytes
InitCount == \E T \in CountThresholds : InitWith(CountConf(T), RetainStart, 170, {RetainPid})
NextCount ==
    \/ Start(-1)
    \/ \E res \in CountResults :
          /\ res = "ok" \/ tbl.data[tbl.curidx].filenum < CountFiles
          /\ LoopTop(res, -1)
    \/ Wake
    \/ ReadPipe
    \/ /\ sent[RetainPid] = <<>>
       /\ Report(RetainPid, AUDIT_DML_ACTION, AUDIT_OK, STR_table, Fill(3, 100))
    \/ BackendWrite(RetainPid, TRUE)
    \/ CountRoom /\ SigUsr1(CountFiles)
    \/ SigQuit
    \/ Reload(conf)
    \/ Restart
SpecCount == InitCount /\ [][NextCount]_vars

(***************************************************************************)
(* SpecQuit: a collector that is told to terminate (SIGQUIT) or sees the   *)
(* pipe closed, while a backend sends records of one and of two chunks.    *)
(* Nothing is written to the pipe once the terminate request is made.      *)
(***************************************************************************)
QuitRecords == 2
QuitDetailLens == {20, 388}
InitQuit == InitWith(BaseConf, PipeStart, 170, {RetainPid})
NextQuit ==
    \/ Start(-1)
    \/ LoopTop("ok", -1)
    \/ Wake
    \/ ReadPipe
    \/ PipeEof(-1)
    \/ \E n \in QuitDetailLens :
          /\ Len(sent[RetainPid]) < QuitRecords
          /\ Report(RetainPid, AUDIT_DML_ACTION, AUDIT_OK, STR_table, Fill(n, 100))
    \/ ~need_exit /\ BackendWrite(RetainPid, TRUE)
    \/ CloseWriters
    \/ SigQuit
SpecQuit == InitQuit /\ [][NextQuit]_vars

(***************************************************************************)
(* SpecDisk: two backends report one record each while the disk may be     *)
(* full when the collector writes.                                         *)
(***************************************************************************)
DiskShort == 10
DiskFaults == {"fwrite", "fflush"}
DiskDetailLens == {20, 388}
InitDisk == InitWith(BaseConf, PipeStart, 170, PipePids)
NextDisk ==
    \/ Start(-1)
    \/ LoopTop("ok", -1)
    \/ ReadPipe
    \/ \E at \in DiskFaults, short \in {0, DiskShort} : ReadPipeNoSpace(at, short)
    \/ \E p \in PipePids, n \in DiskDetailLens :
          /\ sent[p] = <<>>
          /\ Report(p, AUDIT_DML_ACTION, AUDIT_OK, STR_table, Fill(n, 100 + (p % 16)))
    \/ \E p \in PipePids : BackendWrite(p, TRUE)
SpecDisk == InitDisk /\ [][NextDisk]_vars

(***************************************************************************)
(* SpecRotate: a collector that rotates by time only, by size only or by   *)
(* the space limit only, with rotation requests, reloads, a clock that     *)
(* ticks and an fopen that may fail.                                       *)
(***************************************************************************)
RotateFiles == 2
RotateTick == 30
RotateTicks == 2
RotateResults == {"ok", "EACCES", "ENFILE"}
RotateConf(age, size, limit) ==
    [BaseConf EXCEPT !.Audit_RotationAge = age, !.Audit_RotationSize = size,
                     !.Audit_SpaceLimit = limit]
RotateConfs == {RotateConf(1, 1024, 1048576), RotateConf(0, 1, 1048576), RotateConf(0, 1024, 1)}
InitRotate == \E cf \in RotateConfs : InitWith(cf, RetainStart, 170, {RetainPid})
NextRotate ==
    \/ Start(-1)
    \/ \E res \in RotateResults :
          /\ res = "ok" \/ tbl.data[tbl.curidx].filenum < RotateFiles
          /\ LoopTop(res, -1)
    \/ Wake
    \/ ReadPipe
    \/ Tick(RotateTick, RetainStart + RotateTicks * RotateTick)
    \/ /\ Len(sent[RetainPid]) < RetainRecords
       /\ Report(RetainPid, AUDIT_DML_ACTION, AUDIT_OK, STR_table, Fill(RetainDetailLen, 100))
    \/ BackendWrite(RetainPid, TRUE)
    \/ CountRoom /\ SigUsr1(RotateFiles)
    \/ Reload(conf)
SpecRotate == InitRotate /\ [][NextRotate]_vars

(***************************************************************************)
(* SpecClock: a collector whose wall clock is set back, by steps, while it  *)
(* appends and rotates, and whose configuration a reload can change to      *)
(* auditing disabled.                                                       *)
(***************************************************************************)
ClockFiles == 1

ClockRecords == 2

ClockConfs == {BaseConf, [BaseConf EXCEPT !.Audit_enabled = FALSE]}

InitClock == InitWith(BaseConf, RetainStart, 170, {RetainPid})

NextClock ==
    \/ Start(-1)
    \/ LoopTop("ok", -1)
    \/ Wake
    \/ ReadPipe
    \/ /\ Len(sent[RetainPid]) < ClockRecords
       /\ Report(RetainPid, AUDIT_DML_ACTION, AUDIT_OK, STR_table, Fill(3, 100))
    \/ BackendWrite(RetainPid, TRUE)
    \/ Rewind(RetainStep, RetainStart - RetainStep * RetainRewinds)
    \/ SigUsr1(ClockFiles)
    \/ \E cf \in ClockConfs : Reload(cf)

SpecClock == InitClock /\ [][NextClock]_vars

(***************************************************************************)
(* SpecScan: the same clock, auditing enabled throughout, and a session     *)
(* that queries and deletes.                                                *)
(***************************************************************************)
\* the arguments the session uses: the earliest instant the clock takes, and
\* the seconds before and after the instant of the start
ScanTimes ==
    {time_t_to_timestamptz(RetainStart - RetainRewinds * RetainStep),
     time_t_to_timestamptz(RetainStart - 1), time_t_to_timestamptz(RetainStart + 1)}

NextScan ==
    \/ Start(-1)
    \/ LoopTop("ok", -1)
    \/ ReadPipe
    \/ /\ Len(sent[RetainPid]) < ClockRecords
       /\ Report(RetainPid, AUDIT_DML_ACTION, AUDIT_OK, STR_table, Fill(3, 100))
    \/ BackendWrite(RetainPid, TRUE)
    \/ Rewind(RetainStep, RetainStart - RetainStep * RetainRewinds)
    \/ SigUsr1(ClockFiles)
    \/ \E b \in ScanTimes, e \in ScanTimes : b < e /\ Query(b, e)
    \/ \E b \in ScanTimes, e \in ScanTimes : b < e /\ Delete(b, e)

SpecScan == InitClock /\ [][NextScan]_vars

(***************************************************************************)
(* SpecStray: bytes that are no chunks arrive on the pipe, in runs with    *)
(* and without a NUL byte, between the chunks of a backend.                *)
(***************************************************************************)
StrayBytes == 170

StrayPipe == 40

StrayRuns == {Fill(5, 123), Fill(30, 120), Fill(12, 120) \o <<0>> \o Fill(30, 122)}

\* the pipe, the read buffer and the first file together stay small
StrayRoom ==
    /\ Len(pipe) < StrayPipe
    /\ Len(pipe) + Len(auditbuffer) + (IF 0 \in DOMAIN files THEN Len(files[0]) ELSE 0)
           < StrayBytes

InitStray == InitWith(BaseConf, PipeStart, 170, {RetainPid})

NextStray ==
    \/ Start(-1)
    \/ LoopTop("ok", -1)
    \/ ReadPipe
    \/ PipeEof(-1)
    \/ \E run \in StrayRuns : StrayRoom /\ StrayWrite(run)
    \/ /\ sent[RetainPid] = <<>>
       /\ Report(RetainPid, AUDIT_DML_ACTION, AUDIT_OK, STR_table, Fill(3, 100))
    \/ BackendWrite(RetainPid, TRUE)
    \/ CloseWriters

SpecStray == InitStray /\ [][NextStray]_vars

(***************************************************************************)
(* SpecStamp: a clock that moves on between the report of a record and its *)
(* append, records of one and of two chunks, a rotation, an EOF, and a     *)
(* record that comes with a time and a size of its own in its header.      *)
(***************************************************************************)
StampPid == 9

StampTick == 7

StampTicks == 2

StampDetailLens == {20, 388}

\* a record as a producer other than audit_report can hand it over: with a
\* time and a size in the header
ForgedRecord ==
    Poke(Poke(audit_record(AUDIT_DML_ACTION, AUDIT_OK, Port(StampPid), STR_table,
                           Fill(3, 100), STR_node, 170),
              OFF_time, LE(5, 8)), OFF_size, LE(77, 4))

InitStamp == InitWith(BaseConf, RetainStart, 170, {RetainPid})

NextStamp ==
    \/ Start(-1)
    \/ LoopTop("ok", -1)
    \/ ReadPipe
    \/ PipeEof(-1)
    \/ Tick(StampTick, RetainStart + StampTicks * StampTick)
    \/ \E n \in StampDetailLens :
          /\ sent[RetainPid] = <<>>
          /\ Report(RetainPid, AUDIT_DML_ACTION, AUDIT_OK, STR_table, Fill(n, 100))
    \/ BackendWrite(RetainPid, TRUE)
    \/ /\ pipe = <<>> /\ pc # "exited"
       /\ \A f \in DOMAIN files :
             \A o \in 0..(Len(files[f]) - Len(ForgedRecord)) :
                 Bytes(files[f], o + AUDIT_HEADER_SIZE, Len(ForgedRecord) - AUDIT_HEADER_SIZE)
                     # Bytes(ForgedRecord, AUDIT_HEADER_SIZE, Len(ForgedRecord) - AUDIT_HEADER_SIZE)
       /\ StrayWrite(PipeChunk(StampPid, CH_t, ForgedRecord, 170))
    \/ SigUsr1(ClockFiles)
    \/ CloseWriters

SpecStamp == InitStamp /\ [][NextStamp]_vars

(***************************************************************************)
(* SpecFilter: a backend reports records of several types, known and       *)
(* unknown, under configurations that differ in Audit_enabled, in the      *)
(* category masks and in the mode of the server; reloads change them.      *)
(***************************************************************************)
FilterRecords == 2

NoMasks == [BaseConf EXCEPT !.Audit_DML = 0]

\* all masks off; auditing off with masks on; pending mode; DML only;
\* DDL of tables and logout only
FilterConfs ==
    {NoMasks,
     [BaseConf EXCEPT !.Audit_enabled = FALSE, !.Audit_DDL = 32, !.Audit_Session = 4],
     [BaseConf EXCEPT !.current_mode = "PENDING_MODE"],
     BaseConf,
     [NoMasks EXCEPT !.Audit_DDL = 32, !.Audit_Session = 4]}

\* unknown (0 and the number after the last), login_success, user_logout,
\* ddl_table, ddl_index, dml_action, internal_event
FilterTypes == {0, 1, 3, 18, 19, AUDIT_DML_ACTION, AUDIT_INTERNAL_EVENT, 39}

InitFilter == \E cf \in FilterConfs : InitWith(cf, RetainStart, 170, {RetainPid})

NextFilter ==
    \/ Start(-1)
    \/ LoopTop("ok", -1)
    \/ ReadPipe
    \/ \E type \in FilterTypes :
          /\ Len(sent[RetainPid]) < FilterRecords
          /\ Report(RetainPid, type, AUDIT_OK, STR_table, Fill(3, 100))
    \/ BackendWrite(RetainPid, TRUE)
    \/ SigUsr1(ClockFiles)
    \/ \E cf \in FilterConfs : Reload(cf)

SpecFilter == InitFilter /\ [][NextFilter]_vars

(***************************************************************************)
(* SpecFields: records with and without a connection, with object names    *)
(* and details that are NULL, empty, short and of two chunks.              *)
(***************************************************************************)
FieldsRecords == 2

FieldsStrings == {NULL, <<>>, Fill(3, 100), Fill(388, 100)}

InitFields == InitWith(BaseConf, RetainStart, 170, {RetainPid})

NextFields ==
    \/ Start(-1)
    \/ LoopTop("ok", -1)
    \/ ReadPipe
    \/ \E object_name \in {NULL, STR_table}, detail_info \in FieldsStrings :
          /\ Len(sent[RetainPid]) < FieldsRecords
          /\ Report(RetainPid, AUDIT_DML_ACTION, AUDIT_OK, object_name, detail_info)
    \/ BackendWrite(RetainPid, TRUE)
    \/ Rewind(RetainStep, RetainStart - RetainStep)
    \/ SigUsr1(ClockFiles)

SpecFields == InitFields /\ [][NextFields]_vars

(***************************************************************************)
(* SpecAge: the time-priority policy with files of several ages.  One      *)
(* session reports records, the rotation is requested, and the wall clock  *)
(* moves a day at a time: with Audit_RemainAge = 1 the victim and the slot *)
(* after it are younger than, as old as, and older than the age kept.      *)
(***************************************************************************)
AgeDays == 2

AgeFiles == 2

AgeConf == RetainConf(0, 1)

InitAge == InitWith(AgeConf, RetainStart, 170, {RetainPid})

NextAge ==
    \/ Start(-1)
    \/ LoopTop("ok", -1)
    \/ Wake
    \/ ReadPipe
    \/ Tick(SECS_PER_DAY, RetainStart + AgeDays * SECS_PER_DAY)
    \/ /\ Len(sent[RetainPid]) < RetainRecords
       /\ Report(RetainPid, AUDIT_DML_ACTION, AUDIT_OK, STR_table, Fill(RetainDetailLen, 100))
    \/ BackendWrite(RetainPid, TRUE)
    \/ SigUsr1(AgeFiles)

SpecAge == InitAge /\ [][NextAge]_vars

(***************************************************************************)
(* SpecZone: time-based rotation in several time zones.  The rotation age  *)
(* is one or two minutes (or none, by a reload), log_timezone is GMT, GMT  *)
(* + 5:45 or a local mean time 4:56:02 behind GMT, the clock moves half a  *)
(* minute at a time, rotations are requested and an fopen may fail.        *)
(***************************************************************************)
ZoneFiles == 2

ZoneTick == 30

ZoneTicks == 4

ZoneAges == {1, 2}

ZoneOffsets == {0, 20700, -17762}

ZoneResults == {"ok", "ENFILE"}

ZoneConf(age, off) == [BaseConf EXCEPT !.Audit_RotationAge = age, !.gmtoff = off]

ZoneConfs == {ZoneConf(age, off) : age \in ZoneAges \cup {0}, off \in ZoneOffsets}

InitZone == \E age \in ZoneAges, off \in ZoneOffsets :
                InitWith(ZoneConf(age, off), RetainStart, 170, {RetainPid})

NextZone ==
    \/ Start(-1)
    \/ \E res \in ZoneResults :
          /\ res = "ok" \/ tbl.data[tbl.curidx].filenum < ZoneFiles
          /\ LoopTop(res, -1)
    \/ Wake
    \/ Tick(ZoneTick, RetainStart + ZoneTicks * ZoneTick)
    \/ SigUsr1(ZoneFiles)
    \/ \E cf \in ZoneConfs : cf.gmtoff = conf.gmtoff /\ cf # conf /\ Reload(cf)

SpecZone == InitZone /\ [][NextZone]_vars

(***************************************************************************)
(* SpecSignal: requests that arrive at any point of an iteration.  Rotation*)
(* is requested (SIGUSR1) and the configuration reloaded (SIGHUP) while    *)
(* the collector is at the top of its loop, in the wait, or in the middle  *)
(* of an iteration; the rotation age is one or two minutes, a session      *)
(* reports a record, the clock ticks, the postmaster may send SIGQUIT.     *)
(* The collector thread is scheduled: the prologue and every iteration of  *)
(* the loop come to their end (neither has a guard but the position of the *)
(* thread), and WaitLatchOrSocket returns when it can.                     *)
(***************************************************************************)
SignalFiles == 1

SignalRecords == 1

SignalTick == 30

SignalTicks == 1

SignalDetailLen == 20

SignalConfs == {ZoneConf(1, 0), ZoneConf(2, 0)}

InitSignal == InitWith(ZoneConf(1, 0), RetainStart, 170, {RetainPid})

\* an iteration of the loop during which sigUsr1Handler runs: early, after
\* ResetLatch and before the loop reads rotation_requested, or late, after
\* auditfile_rotate has cleared it (or the loop has found it clear) and
\* before WaitLatchOrSocket
LoopTopRaised(res, badnum, early) ==
    /\ pc = "top"
    /\ ~need_exit
    /\ latch' = TRUE
    /\ \E c0 \in {IF early THEN [Ctx EXCEPT !.rotation_requested = TRUE] ELSE Ctx} :
       \E c1 \in {IF got_SIGHUP THEN ServeSighup(c0, clock, badnum) ELSE c0} :
           /\ \E c2 \in {IF c1.crashed THEN c1
                          ELSE ServeRotation(c1, clock, res, badnum)} :
                  Settle(IF early THEN c2 ELSE [c2 EXCEPT !.rotation_requested = TRUE],
                         "wait")
           /\ got_SIGHUP' = FALSE
           /\ loopnow' = IF c1.guc.Audit_RotationAge > 0 /\ ~c1.rotation_disabled
                         THEN clock ELSE loopnow
           /\ currentAuditRotationAge' =
                  IF got_SIGHUP THEN c1.guc.Audit_RotationAge
                  ELSE currentAuditRotationAge
           /\ currentAuditRemainThreshold' =
                  IF got_SIGHUP THEN c1.guc.Audit_RemainThreshold
                  ELSE currentAuditRemainThreshold
    /\ UNCHANGED <<envvars, pipevars, need_exit, auditbuffer, pipe_eof_seen>>
    /\ ForgetSql

NextSignal ==
    \/ Start(-1)
    \/ LoopTop("ok", -1)
    \/ \E early \in BOOLEAN :
          /\ tbl.data[tbl.curidx].filenum < SignalFiles
          /\ LoopTopRaised("ok", -1, early)
    \/ Wake
    \/ ReadPipe
    \/ Tick(SignalTick, RetainStart + SignalTicks * SignalTick)
    \/ /\ Len(sent[RetainPid]) < SignalRecords
       /\ Report(RetainPid, AUDIT_DML_ACTION, AUDIT_OK, STR_table, Fill(SignalDetailLen, 100))
    \/ BackendWrite(RetainPid, TRUE)
    \/ SigUsr1(SignalFiles)
    \/ \E cf \in SignalConfs : Reload(cf)
    \/ SigQuit

\* the prologue comes to its end
PrologueRuns == pc = "down" /\ pc' \in {"top", "crashed"}

\* an iteration of the loop comes to the wait, or leaves the loop
LoopRuns == pc = "top" /\ pc' \in {"wait", "exited", "crashed"}

SpecSignal ==
    /\ InitSignal /\ [][NextSignal]_vars
    /\ WF_pc(PrologueRuns) /\ WF_pc(LoopRuns) /\ WF_vars(Wake)

(***************************************************************************)
(* Reading the pipe and the audit file back, for the properties.           *)
(***************************************************************************)
\* the fields of a chunk as the bytes of its header give them
ChunkLen(ch) == ch[3] + 256 * ch[4]

ChunkPid(ch) == DecLE(SubSeq(ch, 9, 16))

ChunkPayload(ch) == SubSeq(ch, PIPE_HEADER_SIZE + 1, Len(ch))

RECURSIVE Concat(_)
Concat(ss) == IF ss = <<>> THEN <<>> ELSE Head(ss) \o Concat(Tail(ss))

\* every chunk the backend p made for its record: those written and those to come
ChunksOf(p) == [i \in 1..Len(wlog[p]) |-> wlog[p][i].chunk] \o backend[p]

CeilDiv(a, b) == (a + b - 1) \div b

\* the record rec stands in the file at offset o: every byte but the time
\* stamp is the record's, and the size field holds its length
RecordAt(file, o, rec) ==
    /\ o + Len(rec) <= Len(file)
    /\ file[o + 1] = rec[1]
    /\ DecLE(Bytes(file, o + OFF_size, 4)) = Len(rec)
    /\ \A i \in 1..Len(rec) :
          \/ i \in (OFF_time + 1)..(OFF_size + 4)
          \/ file[o + i] = rec[i]

Occurrences(file, rec) == {o \in 0..(Len(file) - Len(rec)) : RecordAt(file, o, rec)}

\* the record the collector writes when it opens a new file
CreateRecord ==
    audit_record(AUDIT_INTERNAL_EVENT, AUDIT_OK, NoPort, STR_file, STR_create,
                 conf.PGXCNodeName, stackpad)

\* the records that may stand in a file of SpecPipe
KnownRecords == {CreateRecord} \cup {sent[p][1] : p \in {q \in DOMAIN sent : sent[q] # <<>>}}

RECURSIVE RecordsFrom(_, _)
\* from offset o on the file is a sequence of whole known records
RecordsFrom(file, o) ==
    \/ o = Len(file)
    \/ \E rec \in KnownRecords : RecordAt(file, o, rec) /\ RecordsFrom(file, o + Len(rec))

AllWritesOk == \A p \in DOMAIN wlog : \A i \in 1..Len(wlog[p]) : wlog[p][i].ok

\* the backend p has handed its whole record to the pipe
FullyWritten(p) ==
    /\ sent[p] # <<>>
    /\ backend[p] = <<>>
    /\ Len(wlog[p]) = CeilDiv(Len(sent[p][1]), PIPE_MAX_PAYLOAD)
    /\ \A i \in 1..Len(wlog[p]) : wlog[p][i].ok

\* C1: whatever the interleaving of the chunks of producers that each wrote
\* their whole message to the pipe, the audit file is a sequence of whole
\* records, each producer's message in one piece
\* (as the code stands this fails, see C2: a message left in pieces at EOF).
C1_MessagesIntact ==
    (/\ AllWritesOk
     /\ \A p \in DOMAIN sent : sent[p] # <<>> => FullyWritten(p)
     /\ 0 \in DOMAIN files)
        => RecordsFrom(files[0], 0)

\* C2: once every chunk of a record of k * PIPE_MAX_PAYLOAD + r bytes has been
\* written to the pipe (no write having failed) and the collector has read
\* the pipe empty, the record is in the audit file, once, with no further
\* data needed.
C2_PersistedOnceRead ==
    \A p \in DOMAIN sent :
        (AllWritesOk /\ FullyWritten(p) /\ pipe = <<>> /\ pc \in {"top", "wait", "exited"})
            => Cardinality(Occurrences(files[0], sent[p][1])) = 1

\* C3: write_pipe_chunks makes ceil(L / PIPE_MAX_PAYLOAD) chunks of a record of
\* L bytes, each with the two NUL bytes, the sender's thread id, a length in
\* 1..PIPE_MAX_PAYLOAD, 'f' on all but the last and 't' on the last; their
\* payloads concatenated are the record; each is handed to write() once,
\* whether or not the write succeeds.
C3_ChunkFraming ==
    \A p \in DOMAIN sent :
        (sent[p] # <<>> /\ writers) =>
            LET rec == sent[p][1]
                chs == ChunksOf(p)
            IN /\ Len(chs) = CeilDiv(Len(rec), PIPE_MAX_PAYLOAD)
               /\ \A i \in 1..Len(chs) :
                     /\ chs[i][1] = 0 /\ chs[i][2] = 0
                     /\ ChunkLen(chs[i]) > 0 /\ ChunkLen(chs[i]) <= PIPE_MAX_PAYLOAD
                     /\ Len(chs[i]) = PIPE_HEADER_SIZE + ChunkLen(chs[i])
                     /\ ChunkPid(chs[i]) = p
                     /\ chs[i][PIPE_HEADER_SIZE] = IF i = Len(chs) THEN CH_t ELSE CH_f
               /\ Concat([i \in 1..Len(chs) |-> ChunkPayload(chs[i])]) = rec

\* C3: a record of three chunks has gone through write(), one call failed
C3_Witness ==
    \E p \in DOMAIN sent :
        /\ sent[p] # <<>> /\ writers /\ backend[p] = <<>>
        /\ Len(wlog[p]) = 3
        /\ \E i \in 1..3 : ~wlog[p][i].ok

(***************************************************************************)
(* Properties of the query and delete scans (SpecQuery).                   *)
(***************************************************************************)
RECURSIVE RecordOffsets(_, _)
\* the offsets at which the records of a file start, from offset o on
RecordOffsets(file, o) ==
    IF Len(file) - o < SIZEOF_AuditMsgHdr THEN {}
    ELSE LET h == Bytes(file, o, SIZEOF_AuditMsgHdr)
         IN IF ~ValidAuditHdr(h) \/ HdrSize(h) <= SIZEOF_AuditMsgHdr
               \/ Len(file) - o < HdrSize(h)
            THEN {}
            ELSE {o} \cup RecordOffsets(file, o + HdrSize(h))

RECURSIVE RingWalk(_, _)
\* the slots from index to curidx, in ring order
RingWalk(t, index) ==
    IF index = t.curidx THEN <<index>>
    ELSE <<index>> \o RingWalk(t, (index + 1) % t.maxnum)

\* the numbers of the files the ring of the index file holds
RingFiles ==
    IF indexfile.kind = "table"
    THEN LET w == RingWalk(indexfile.tbl, indexfile.tbl.begidx)
         IN {indexfile.tbl.data[w[k]].filenum : k \in 1..Len(w)} \cap DOMAIN files
    ELSE {}

HeaderAt(file, o) == Bytes(file, o, SIZEOF_AuditMsgHdr)

IsLive(file, o) == HdrFlags(HeaderAt(file, o)) = AUDIT_TUPLE_NORMAL

TimeAt(file, o) == HdrTime(HeaderAt(file, o))

\* does the query of the one second from the stamped time t on return the
\* record at offset o of file fnum
Returned(fnum, o, t) ==
    \E r \in {pg_query_audit(indexfile, files, time_t_to_timestamptz(t),
                             time_t_to_timestamptz(t + 1))} :
        \E k \in 1..Len(r) : r[k].at = [fnum |-> fnum, off |-> o]

\* C4: for every record, stamped t, of a file the ring holds, whatever appends
\* and rotations (time-based ones serviced late too) came before,
\* query(t, t+1) returns the record if and only if its flags are live.
C4_QueryClosure ==
    \A fnum \in RingFiles :
        \A o \in RecordOffsets(files[fnum], 0) :
            Returned(fnum, o, TimeAt(files[fnum], o)) <=> IsLive(files[fnum], o)

InRange(file, o, begtime, endtime) ==
    /\ time_t_to_timestamptz(TimeAt(file, o)) >= begtime
    /\ time_t_to_timestamptz(TimeAt(file, o)) < endtime

\* C5: every row query(begin, end) returns comes from a record with
\* begin <= time < end whose flags are live (so never from a tombstoned one),
\* and there are no rows when begin >= end.
C5_QueryRows ==
    rows.called =>
        /\ \A k \in 1..Len(rows.out) :
              LET at == rows.out[k].at
              IN /\ at.fnum \in DOMAIN rows.dir
                 /\ at.off \in RecordOffsets(rows.dir[at.fnum], 0)
                 /\ InRange(rows.dir[at.fnum], at.off, rows.begtime, rows.endtime)
                 /\ IsLive(rows.dir[at.fnum], at.off)
                 /\ rows.out[k].time = time_t_to_timestamptz(TimeAt(rows.dir[at.fnum], at.off))
        /\ rows.begtime >= rows.endtime => rows.out = <<>>

\* a query returned rows from a directory that holds a tombstoned record
\* of the queried range
C5_Witness ==
    /\ rows.called
    /\ rows.out # <<>>
    /\ \E fnum \in DOMAIN rows.dir :
          \E o \in RecordOffsets(rows.dir[fnum], 0) :
              /\ ~IsLive(rows.dir[fnum], o)
              /\ InRange(rows.dir[fnum], o, rows.begtime, rows.endtime)

\* byte i (from 1) lies in the flags of a record that was live and of the
\* range before the delete, and that is tombstoned after it
FlagsOfHit(before, after, i, begtime, endtime) ==
    \E o \in RecordOffsets(before, 0) :
        /\ i \in {o + 7, o + 8}
        /\ IsLive(before, o)
        /\ InRange(before, o, begtime, endtime)
        /\ HdrFlags(HeaderAt(after, o)) = AUDIT_TUPLE_DEAD

\* C6: delete(begin, end) changes nothing but the flags, from live to
\* tombstoned, of records that are live with begin <= time < end: no other
\* byte and no length changes; the same delete once more changes nothing.
C6_DeleteOnlyFlags ==
    snap.called =>
        /\ DOMAIN snap.after = DOMAIN snap.before
        /\ \A f \in DOMAIN snap.before :
              /\ Len(snap.after[f]) = Len(snap.before[f])
              /\ \A i \in 1..Len(snap.before[f]) :
                    snap.after[f][i] # snap.before[f][i] =>
                        FlagsOfHit(snap.before[f], snap.after[f], i,
                                   snap.begtime, snap.endtime)
        /\ pg_delete_audit(snap.index, snap.after, snap.begtime, snap.endtime, stackpad)
               = snap.after

\* a delete tombstoned a record and left a live one out of its range alone
C6_Witness ==
    /\ snap.called
    /\ \E f \in DOMAIN snap.before : snap.after[f] # snap.before[f]
    /\ \E f \in DOMAIN snap.after :
          \E o \in RecordOffsets(snap.after[f], 0) :
              /\ IsLive(snap.after[f], o)
              /\ ~InRange(snap.after[f], o, snap.begtime, snap.endtime)

(***************************************************************************)
(* Properties of retention and of the ring (SpecRetain, SpecCount).        *)
(***************************************************************************)
Abs(x) == IF x < 0 THEN 0 - x ELSE x

\* C7: retention never evicts the currently open file: no eviction is of the
\* slot curidx, and none unlinks the file the collector has open.
C7_CurrentFileKept ==
    \A k \in 1..Len(removed) :
        /\ removed[k].index # removed[k].curidx
        /\ ~removed[k].open

\* C8: with RemainThreshold T, the space limit not binding and every unlink
\* succeeding, after each retention pass count <= T; once the current file is
\* numbered T or more, exactly T files remain and count = T; every evicted
\* file has a smaller number than every remaining file.
C8_CountBounded ==
    \E T \in {guc.Audit_RemainThreshold}, cur \in {tbl.data[tbl.curidx].filenum} :
       pc \in {"wait", "exited"} =>
          /\ tbl.count <= T
          /\ (cur >= T /\ cur \in DOMAIN files) =>
                 /\ tbl.count = T
                 /\ Cardinality(DOMAIN files) = T
          /\ \A k \in 1..Len(removed) : \A f \in DOMAIN files : removed[k].filenum < f

\* an evicted file was created less than RemainAge days before last_audit_time
Young(r) == r.last - Abs(r.ctime) < guc.Audit_RemainAge * SECS_PER_DAY
\* the eviction happened under the time-priority policy, within the count
\* threshold and within SPACE_MAXIMUM_SIZE
TimeCase(r) ==
    /\ guc.Audit_CleanupPolicy = 0
    /\ guc.Audit_RemainAge > 0
    /\ r.count <= guc.Audit_RemainThreshold
    /\ WithinMaximumSize(r.total)

\* C9: under the time-priority policy with RemainAge > 0, count within the
\* threshold and total space within 1 TiB, no evicted file is younger than
\* RemainAge days, its creation time being the absolute value of its ctime.
C9_YoungFileKept ==
    \A k \in 1..Len(removed) :
        (TimeCase(removed[k]) /\ removed[k].index # removed[k].curidx) => ~Young(removed[k])

\* C10: in every state, walking the ring from begidx to curidx visits slots
\* with strictly increasing filenum.
C10_RingOrdered ==
    \A w \in {RingWalk(tbl, tbl.begidx)} :
        \A i \in 1..Len(w) : \A j \in (i + 1)..Len(w) :
            tbl.data[w[i]].filenum < tbl.data[w[j]].filenum

\* C11: between loop steps of the collector, whenever the index table is
\* non-empty, count = ((curidx - begidx) mod maxnum) + 1.
C11_CountMatchesRing ==
    (Running /\ tbl.count > 0) =>
        tbl.count = ((tbl.curidx - tbl.begidx + tbl.maxnum) % tbl.maxnum) + 1

(***************************************************************************)
(* Properties of the shutdown paths (SpecQuit).                            *)
(***************************************************************************)
\* C12: after a terminate request the collector reads the pipe until EOF
\* and only then exits: when it has exited, no chunk written before the
\* request is left in the pipe (SpecQuit writes none after the request).
C12_ExitAfterEof == pc = "exited" => pipe = <<>>

\* a reassembly slot still holds a partial record
PendingSlot == \E b \in DOMAIN lists : \E i \in 1..Len(lists[b]) : lists[b][i].pid # 0

\* C13: on every shutdown path, once the collector has exited every
\* reassembly slot has pid = 0 and the read buffer holds zero bytes.
C13_FlushedOnExit == pc = "exited" => (~PendingSlot /\ auditbuffer = <<>>)

(***************************************************************************)
(* Properties of a write on a full disk (SpecDisk).                        *)
(***************************************************************************)
\* C14: an append that meets ENOSPC is retried until it succeeds: no record
\* is dropped.  Once a backend has written its whole record to the pipe and
\* the collector has read and processed all of it, the record is in the file.
C14_EnospcNotDropped ==
    \A p \in DOMAIN sent :
        (FullyWritten(p) /\ pipe = <<>> /\ auditbuffer = <<>> /\ ~PendingSlot /\ Running)
            => Occurrences(files[0], sent[p][1]) # {}

(***************************************************************************)
(* Properties of the rotation (SpecRotate).                                *)
(***************************************************************************)
\* an iteration of the loop that gets past the need_exit test, fopen answering res
LoopPass(res) == pc = "top" /\ ~need_exit /\ LoopTop(res, -1)

\* C15: when the fopen of a rotation fails with ENFILE or EMFILE the collector
\* keeps using the current file: the file that was open stays open, and
\* rotation_disabled stays false.
C15_KeepsCurrentFile ==
    [][\A res \in {"ENFILE", "EMFILE"} :
          (fh.open /\ ~rotation_disabled /\ LoopPass(res)) =>
              /\ fh'.open /\ fh'.fnum = fh.fnum
              /\ ~rotation_disabled']_vars

\* C16: a rotation whose fopen fails with another error sets rotation_disabled;
\* while it is set the wait has no timeout and an iteration with no reload and
\* no request pending attempts no rotation, whatever the clock and the file
\* size; the iteration that serves the next reload clears it and makes one
\* rotation attempt, whose fopen decides the state left.
C16_DisabledUntilReload ==
    [][/\ rotation_disabled => ~TimeoutDue
       /\ \A res \in RotateResults :
            /\ (fh.open /\ res \notin {"ok", "ENFILE", "EMFILE"} /\ LoopPass(res) /\ ~fh'.open)
                   => rotation_disabled'
            /\ (rotation_disabled /\ ~got_SIGHUP /\ ~rotation_requested /\ LoopPass(res))
                   => /\ rotation_disabled'
                      /\ fh'.open = fh.open /\ fh'.fnum = fh.fnum
                      /\ tbl'.curidx = tbl.curidx
            /\ (rotation_disabled /\ got_SIGHUP /\ ~fh.open /\ LoopPass(res))
                   => /\ fh'.open = (res = "ok")
                      /\ fh'.open => fh'.fnum = tbl.data[tbl.curidx].filenum
                      /\ tbl'.curidx = tbl.curidx
                      /\ rotation_disabled' = (res \notin {"ok", "ENFILE", "EMFILE"})
                      /\ ~rotation_requested']_vars

\* C16: rotation is disabled, the file is closed, a time-based rotation is
\* due and the collector waits
C16_Witness ==
    /\ pc = "wait" /\ rotation_disabled /\ ~latch /\ ~fh.open
    /\ guc.Audit_RotationAge > 0 /\ clock >= next_rotation_time

\* one of the triggers of a rotation holds
Trigger ==
    \/ guc.Audit_RotationAge > 0 /\ clock >= next_rotation_time
    \/ fh.pos >= guc.Audit_RotationSize * 1024
    \/ fh.pos >= guc.Audit_SpaceLimit * 1024
    \/ rotation_requested

C18_PlannedTime ==
    [][(/\ guc.Audit_RotationAge > 0 /\ ~rotation_disabled /\ fh.open
        /\ clock > next_rotation_time
        /\ clock - next_rotation_time < guc.Audit_RotationAge * SECS_PER_MINUTE
        /\ LoopPass("ok"))
          => tbl'.data[tbl'.curidx].ctime = next_rotation_time]_vars

\* C18: the current file was opened by a rotation and is named after a
\* multiple of the interval that lies before the time the loop last took
C18_Witness ==
    /\ pc = "wait" /\ fh.open /\ fh.fnum >= 1 /\ guc.Audit_RotationAge > 0
    /\ tbl.data[tbl.curidx].ctime > 0
    /\ tbl.data[tbl.curidx].ctime < loopnow
    /\ tbl.data[tbl.curidx].ctime % (guc.Audit_RotationAge * SECS_PER_MINUTE) = 0

(***************************************************************************)
(* Properties of a clock set back (SpecClock, SpecScan).                    *)
(***************************************************************************)
\* the record the collector writes when it finds the clock set back
TimeChangedRecord ==
    audit_record(AUDIT_INTERNAL_EVENT, AUDIT_OK, NoPort, STR_time, STR_timechanged,
                 guc.PGXCNodeName, stackpad)

\* what the file the collector has open after the step held before it
OldBytes == IF fh'.fnum \in DOMAIN files THEN files[fh'.fnum] ELSE <<>>

\* a step in which the running collector appends to the file it has open, or
\* to the one it opens, while the clock is behind the index's last_audit_time
RewoundAppend ==
    /\ fh.open /\ fh.linked
    /\ clock < tbl.last_audit_time
    /\ fh'.open /\ fh'.linked
    /\ Len(files'[fh'.fnum]) > Len(OldBytes)

\* such a step leaves the current slot's ctime negative, last_audit_time at
\* the clock, the index file rewritten, and in the file one more 'system time
\* changed' record, first of what was appended, and more after it
RewindNoticed ==
    /\ tbl'.data[tbl'.curidx].ctime < 0
    /\ tbl'.last_audit_time = clock
    /\ indexfile' = IndexHolding(tbl')
    /\ RecordAt(files'[fh'.fnum], Len(OldBytes), TimeChangedRecord)
    /\ Len(files'[fh'.fnum]) > Len(OldBytes) + Len(TimeChangedRecord)
    /\ Cardinality(Occurrences(files'[fh'.fnum], TimeChangedRecord))
           = Cardinality(Occurrences(OldBytes, TimeChangedRecord)) + 1

\* a negative ctime stays as it is unless the step evicts the slot
StaysNegative ==
    \A i \in DOMAIN tbl.data :
        tbl.data[i].ctime < 0 =>
            \/ i \in DOMAIN tbl'.data /\ tbl'.data[i].ctime = tbl.data[i].ctime
            \/ \E k \in 1..Len(removed') : removed'[k].index = i

ScanSlots(t) ==
    IF t.kind = "table" /\ t.tbl.count > 0
    THEN {RingWalk(t.tbl, t.tbl.begidx)[k] : k \in 1..Len(RingWalk(t.tbl, t.tbl.begidx))}
    ELSE {}

RewoundSlots(t) == {i \in ScanSlots(t) : t.tbl.data[i].ctime < 0}

\* the last query returned the record at offset o of file fnum
RowOf(fnum, o) == \E j \in 1..Len(rows.out) : rows.out[j].at = [fnum |-> fnum, off |-> o]

\* a query returns every live record of its range of every file whose slot
\* has a negative ctime
QueryScansRewound ==
    (rows.called /\ rows.begtime < rows.endtime) =>
        \A i \in RewoundSlots(indexfile) :
            \E fnum \in {indexfile.tbl.data[i].filenum} :
                fnum \in DOMAIN rows.dir =>
                    \A o \in RecordOffsets(rows.dir[fnum], 0) :
                        (IsLive(rows.dir[fnum], o)
                           /\ InRange(rows.dir[fnum], o, rows.begtime, rows.endtime))
                        => RowOf(fnum, o)

\* a delete tombstones every live record of its range of every such file
DeleteScansRewound ==
    (snap.called /\ snap.begtime < snap.endtime) =>
        \A i \in RewoundSlots(snap.index) :
            \E fnum \in {snap.index.tbl.data[i].filenum} :
                fnum \in DOMAIN snap.before =>
                    \A o \in RecordOffsets(snap.before[fnum], 0) :
                        (IsLive(snap.before[fnum], o)
                           /\ InRange(snap.before[fnum], o, snap.begtime, snap.endtime))
                        => HdrFlags(HeaderAt(snap.after[fnum], o)) = AUDIT_TUPLE_DEAD

\* the live record at o1 of file f1 was appended before the live record at o2
\* of file f2 and is stamped with a later time: the clock was set back between
RewindBetween(dir, f1, o1, f2, o2) ==
    /\ o1 \in RecordOffsets(dir[f1], 0) /\ o2 \in RecordOffsets(dir[f2], 0)
    /\ f1 < f2 \/ (f1 = f2 /\ o1 < o2)
    /\ TimeAt(dir[f1], o1) > TimeAt(dir[f2], o2)
    /\ IsLive(dir[f1], o1) /\ IsLive(dir[f2], o2)

\* a query whose range covers the stamped times of two such records returns both
BothReturned ==
    (rows.called /\ rows.begtime < rows.endtime) =>
        \A f1 \in RingFiles \cap DOMAIN rows.dir, f2 \in RingFiles \cap DOMAIN rows.dir :
            \A o1 \in RecordOffsets(rows.dir[f1], 0), o2 \in RecordOffsets(rows.dir[f2], 0) :
                (/\ RewindBetween(rows.dir, f1, o1, f2, o2)
                 /\ InRange(rows.dir[f1], o1, rows.begtime, rows.endtime)
                 /\ InRange(rows.dir[f2], o2, rows.begtime, rows.endtime))
                => (RowOf(f1, o1) /\ RowOf(f2, o2))

\* C20: every query and every delete scans the file of a slot whose ctime is
\* negative, whatever [begin, end) is: the query returns, and the delete
\* tombstones, every live record of the range in it; and of two records with
\* the clock set back between them, a query whose range covers both stamped
\* times returns both.
C20_RewoundSlotScanned == QueryScansRewound /\ DeleteScansRewound /\ BothReturned

\* a query has returned two records of one file, of a slot of negative ctime,
\* the later one stamped with the earlier time
C20_Witness ==
    /\ rows.called
    /\ \E i \in RewoundSlots(indexfile) :
          \E f \in {indexfile.tbl.data[i].filenum} \cap DOMAIN rows.dir :
              \E o1 \in RecordOffsets(rows.dir[f], 0), o2 \in RecordOffsets(rows.dir[f], 0) :
                  /\ RewindBetween(rows.dir, f, o1, f, o2)
                  /\ RowOf(f, o1) /\ RowOf(f, o2)

(***************************************************************************)
(* Properties of what the collector appends (SpecStray, SpecStamp).        *)
(***************************************************************************)
\* the pipe holds one run of bytes with no NUL among them, long enough for the
\* loop of process_pipe_input, and the collector is about to read it into an
\* empty buffer
StrayRun ==
    /\ pc = "wait" /\ fh.open /\ fh.linked
    /\ auditbuffer = <<>>
    /\ Len(pipe) >= HeaderNeed /\ Len(pipe) <= READ_BUF_SIZE
    /\ \A i \in 1..Len(pipe) : pipe[i] # 0
    /\ clock >= tbl.last_audit_time

\* C21: bytes on the pipe that form no valid chunk header are no error and go
\* to the current file verbatim: the step that reads such a run appends
\* exactly the bytes read, unmodified, and leaves the buffer empty.
C21_VerbatimCopy ==
    [][(StrayRun /\ pipe' = <<>> /\ pc' # pc) =>
          /\ pc' = "top"
          /\ auditbuffer' = <<>>
          /\ files' = [files EXCEPT ![fh.fnum] = @ \o pipe]]_vars

\* the bytes the step appends to file f
Grown(f) ==
    SubSeq(files'[f], (IF f \in DOMAIN files THEN Len(files[f]) ELSE 0) + 1, Len(files'[f]))

RECURSIVE StampedRun(_, _, _)
\* from offset o on, bytes is a sequence of records whose headers hold the
\* time now and, as size, the number of bytes up to the next record
StampedRun(bytes, o, now) ==
    \/ o = Len(bytes)
    \/ /\ Len(bytes) - o >= OFF_size + 4
       /\ DecLE(Bytes(bytes, o + OFF_time, 8)) = now
       /\ DecLE(Bytes(bytes, o + OFF_size, 4)) \in (OFF_size + 4)..(Len(bytes) - o)
       /\ StampedRun(bytes, o + DecLE(Bytes(bytes, o + OFF_size, 4)), now)

\* C22: every record the collector appends carries in its header the
\* collector's clock at the moment of the append and, as size, the number of
\* bytes appended for it, whatever the producer put there: what a step adds to
\* a file is a sequence of records so stamped.
C22_StampedOnAppend == [][\A f \in DOMAIN files' : StampedRun(Grown(f), 0, clock)]_vars

\* after the clock moved on, a file holds the record that came with a time
\* and a size of its own, and the reassembled record of two chunks, both
\* stamped with the clock
C22_Witness ==
    /\ clock > RetainStart
    /\ \E f \in DOMAIN files :
          \E o \in Occurrences(files[f], ForgedRecord) : TimeAt(files[f], o) = clock
    /\ sent[RetainPid] # <<>>
    /\ Len(sent[RetainPid][1]) > PIPE_MAX_PAYLOAD
    /\ \E f \in DOMAIN files :
          \E o \in Occurrences(files[f], sent[RetainPid][1]) : TimeAt(files[f], o) = clock

(***************************************************************************)
(* Properties of audit_report (SpecFilter, SpecFields).                    *)
(***************************************************************************)
\* the category of a type reported in SpecFilter is switched on in g
CategoryOn(g, type) ==
    \/ type = 1 /\ Bit(g.Audit_Session, 0)
    \/ type = 3 /\ Bit(g.Audit_Session, 2)
    \/ type = 18 /\ Bit(g.Audit_DDL, 5)
    \/ type = 19 /\ Bit(g.Audit_DDL, 6)
    \/ type = AUDIT_DML_ACTION /\ g.Audit_DML # 0

\* audit_report of a record of this type, called in the backend, emits it
Reports(type) == ENABLED Report(RetainPid, type, AUDIT_OK, STR_table, Fill(3, 100))

\* the type a record carries
TypeOf(rec) == DecLE(Bytes(rec, SIZEOF_AuditMsgHdr, 4))

\* the backend is free to report
Ready == writers /\ backend[RetainPid] = <<>>

FilterAsStated(g, type) ==
    g.Audit_enabled /\ (type = AUDIT_INTERNAL_EVENT \/ CategoryOn(g, type))

RECURSIVE TableEnd(_, _, _)
\* the offset after n entries of the string table that starts at offset o of
\* rec, each a 4-byte length and as many bytes; -1 if rec ends before
TableEnd(rec, o, n) ==
    IF n = 0 THEN o
    ELSE IF o < 0 \/ o + 4 > Len(rec) THEN -1
    ELSE TableEnd(rec, IF o + 4 + DecLE(Bytes(rec, o, 4)) > Len(rec) THEN -1
                       ELSE o + 4 + DecLE(Bytes(rec, o, 4)), n - 1)

\* the record that starts at offset o of file, as long as its header says
RecordOf(file, o) == Bytes(file, o, HdrSize(HeaderAt(file, o)))

RECURSIVE ClosedRecords(_, _, _)
\* from offset o on, file is a chain of records with 'A' 'U', version 0 and
\* fields = 13 in the header, whose size is AUDIT_HEADER_SIZE plus the n
\* entries of the string table, 4 + length each
ClosedRecords(file, o, n) ==
    \/ o = Len(file)
    \/ /\ Len(file) - o >= AUDIT_HEADER_SIZE
       /\ ValidAuditHdr(HeaderAt(file, o))
       /\ HdrSize(HeaderAt(file, o)) <= Len(file) - o
       /\ HdrSize(HeaderAt(file, o)) >= AUDIT_HEADER_SIZE + 4 * n
       /\ TableEnd(RecordOf(file, o), AUDIT_HEADER_SIZE, n) = HdrSize(HeaderAt(file, o))
       /\ ClosedRecords(file, o + HdrSize(HeaderAt(file, o)), n)

AUDIT_OBJECT_NAME == 4
DecodeRecords == 2
DecodeRoom == 300

\* a record as audit_report builds it for a session
DecodeRecord ==
    audit_record(AUDIT_DML_ACTION, AUDIT_OK, Port(StampPid), STR_table, Fill(3, 100),
                 STR_node, 170)

\* the record with 1000 for the length of its object name
OverlongRecord ==
    Poke(DecodeRecord, TableEnd(DecodeRecord, AUDIT_HEADER_SIZE, AUDIT_OBJECT_NAME),
         LE(1000, 4))

\* the record with another signature, version, number of fields
BadHeaderRecords ==
    {Poke(DecodeRecord, 1, <<88>>), Poke(DecodeRecord, 2, LE(1, 2)),
     Poke(DecodeRecord, 4, LE(PGAUDIT_QUERY_COLS - 3, 2))}

InitDecode == InitWith(BaseConf, RetainStart, 170, {RetainPid})

\* a writer of the pipe sends rec as one chunk, while the files are small
Forge(rec) ==
    /\ pipe = <<>>
    /\ pc # "exited"
    /\ \A f \in DOMAIN files : Len(files[f]) < DecodeRoom
    /\ StrayWrite(PipeChunk(StampPid, CH_t, rec, 170))

\* the second before and the second after the one the records are stamped with
DecodeRange ==
    <<time_t_to_timestamptz(RetainStart - 1), time_t_to_timestamptz(RetainStart + 1)>>

NextDecode ==
    \/ Start(-1)
    \/ LoopTop("ok", -1)
    \/ ReadPipe
    \/ /\ Len(sent[RetainPid]) < DecodeRecords
       /\ Report(RetainPid, AUDIT_DML_ACTION, AUDIT_OK, STR_table, Fill(3, 100))
    \/ BackendWrite(RetainPid, TRUE)
    \/ \E rec \in {OverlongRecord} \cup BadHeaderRecords : Forge(rec)
    \/ SigUsr1(ClockFiles)
    \/ Query(DecodeRange[1], DecodeRange[2])
    \/ Delete(DecodeRange[1], DecodeRange[2])

SpecDecode == InitDecode /\ [][NextDecode]_vars

(***************************************************************************)
(* Properties of the scans over records that do not decode (SpecDecode).   *)
(***************************************************************************)
RECURSIVE SizeChain(_, _)
\* the offsets a scan comes to when it goes from header to header by the size
\* fields, whatever else the headers hold
SizeChain(file, o) ==
    IF Len(file) - o < SIZEOF_AuditMsgHdr THEN {}
    ELSE IF HdrSize(HeaderAt(file, o)) <= SIZEOF_AuditMsgHdr
            \/ Len(file) - o < HdrSize(HeaderAt(file, o))
         THEN {o}
         ELSE {o} \cup SizeChain(file, o + HdrSize(HeaderAt(file, o)))

\* one of the first n entries of the string table of rec declares a length
\* beyond the bytes that are left of rec
Overlong(rec, n) ==
    \E k \in 0..(n - 1) :
        /\ TableEnd(rec, AUDIT_HEADER_SIZE, k) >= 0
        /\ TableEnd(rec, AUDIT_HEADER_SIZE, k) + 4 <= Len(rec)
        /\ TableEnd(rec, AUDIT_HEADER_SIZE, k + 1) = -1

\* the offsets of the records of file with such an entry
OverlongAt(file) ==
    {o \in RecordOffsets(file, 0) : Overlong(RecordOf(file, o), PGAUDIT_QUERY_COLS - 3)}

\* C25: a record with a string field whose declared length exceeds the bytes
\* that are left of the record gives no row to a query, and no record after it
\* in that file gives one.
C25_OverlongStops ==
    rows.called =>
        \A k \in 1..Len(rows.out) :
            \A o \in OverlongAt(rows.dir[rows.out[k].at.fnum]) : rows.out[k].at.off < o

\* the header at offset o of file has another signature than 'A' 'U', another
\* version than 0 or another number of fields than 13
BadHeader(file, o) ==
    \/ <<file[o + 1], file[o + 2]>> # <<65, 85>>
    \/ <<file[o + 3], file[o + 4]>> # <<0, 0>>
    \/ <<file[o + 5], file[o + 6]>> # <<13, 0>>

BadAt(file) == {o \in SizeChain(file, 0) : BadHeader(file, o)}

\* the files of the slots a scan of the index file t goes to
ScannedFiles(t, dir, begtime, endtime) ==
    {t.tbl.data[i].filenum :
        i \in {j \in ScanSlots(t) : pgaudit_check_system(t.tbl, begtime, endtime, j)}}
      \cap DOMAIN dir

\* the live records of the range that lie before every bad header of file
Before(file, begtime, endtime) ==
    {o \in SizeChain(file, 0) :
        /\ \A b \in BadAt(file) : o < b
        /\ Len(file) - o >= HdrSize(HeaderAt(file, o))
        /\ HdrSize(HeaderAt(file, o)) > SIZEOF_AuditMsgHdr
        /\ IsLive(file, o)
        /\ InRange(file, o, begtime, endtime)}

QueryStopsAtBadHeader ==
    (rows.called /\ rows.begtime < rows.endtime) =>
        /\ \A k \in 1..Len(rows.out) :
              \A b \in BadAt(rows.dir[rows.out[k].at.fnum]) : rows.out[k].at.off < b
        /\ \A fnum \in ScannedFiles(indexfile, rows.dir, rows.begtime, rows.endtime) :
              \A o \in Before(rows.dir[fnum], rows.begtime, rows.endtime) : RowOf(fnum, o)

DeleteStopsAtBadHeader ==
    (snap.called /\ snap.begtime < snap.endtime) =>
        /\ \A fnum \in DOMAIN snap.before :
              \A b \in BadAt(snap.before[fnum]) :
                  Bytes(snap.after[fnum], b, Len(snap.before[fnum]) - b)
                      = Bytes(snap.before[fnum], b, Len(snap.before[fnum]) - b)
        /\ \A fnum \in ScannedFiles(snap.index, snap.before, snap.begtime, snap.endtime) :
              \A o \in Before(snap.before[fnum], snap.begtime, snap.endtime) :
                  HdrFlags(HeaderAt(snap.after[fnum], o)) = AUDIT_TUPLE_DEAD

\* C26: a query or a delete that meets a header with a bad signature, version
\* or number of fields stops the scan of that file only: the records before it
\* (of this and of the files before) give their rows or are tombstoned, no
\* record from the bad header on is returned or changed, and the files that
\* follow in the ring are scanned.
C26_BadHeaderStopsFile == QueryStopsAtBadHeader /\ DeleteStopsAtBadHeader

\* a query over two files: the first has a row before a bad header and a live
\* record after it, the second has a row
C26_Witness ==
    /\ rows.called
    /\ \E f1 \in DOMAIN rows.dir, f2 \in DOMAIN rows.dir :
          /\ f1 < f2
          /\ \E b \in BadAt(rows.dir[f1]) :
                /\ \E o \in SizeChain(rows.dir[f1], 0) : o < b /\ RowOf(f1, o)
                /\ \E o \in SizeChain(rows.dir[f1], 0) :
                      o > b /\ ~BadHeader(rows.dir[f1], o) /\ IsLive(rows.dir[f1], o)
          /\ \E o \in SizeChain(rows.dir[f2], 0) : RowOf(f2, o)

(***************************************************************************)
(* SpecResize: a collector whose RemainThreshold is changed by reloads and *)
(* between a terminate request and the restart, over the files of a few    *)
(* rotation requests.  Every fopen and every unlink succeeds.              *)
(***************************************************************************)
ResizeFiles == 3

ResizeBytes == 300

ResizeThresholds == {1, 2, 3}

\* rotation requests stop once a file has grown to ResizeBytes
ResizeRoom == \A f \in DOMAIN files : Len(files[f]) < ResizeBytes

InitResize == \E T \in ResizeThresholds : InitWith(CountConf(T), RetainStart, 170, {RetainPid})

NextResize ==
    \/ Start(-1)
    \/ LoopTop("ok", -1)
    \/ Wake
    \/ ReadPipe
    \/ /\ sent[RetainPid] = <<>>
       /\ Report(RetainPid, AUDIT_DML_ACTION, AUDIT_OK, STR_table, Fill(3, 100))
    \/ BackendWrite(RetainPid, TRUE)
    \/ ResizeRoom /\ SigUsr1(ResizeFiles)
    \/ SigQuit
    \/ \E T \in ResizeThresholds : Reload(CountConf(T))
    \/ Restart

SpecResize == InitResize /\ [][NextResize]_vars

(***************************************************************************)
(* Properties of the index table in memory and on disk (SpecResize,        *)
(* SpecCount).                                                             *)
(***************************************************************************)
\* the offset of the last record of a file
LastRecord(file) ==
    CHOOSE o \in RecordOffsets(file, 0) : \A p \in RecordOffsets(file, 0) : p <= o

\* the collector is between two steps of its loop with a file open that
\* holds a record
Appended ==
    /\ pc \in {"top", "wait"}
    /\ fh.open /\ fh.linked
    /\ RecordOffsets(files[fh.fnum], 0) # {}

\* C27: between the steps of the loop, once a record has been appended, the
\* last_audit_time of the table in memory is the time stamped on the record
\* appended last, also after a rotation, an eviction and a resize of the
\* table for a changed RemainThreshold.
C27_LastAuditTime ==
    Appended => tbl.last_audit_time = TimeAt(files[fh.fnum], LastRecord(files[fh.fnum]))

SameIndex(disk, mem) ==
    /\ disk.maxnum = mem.maxnum
    /\ disk.begidx = mem.begidx
    /\ disk.curidx = mem.curidx
    /\ disk.count = mem.count
    /\ disk.data = mem.data

\* C28: after each completed change of the index table (a new file, a
\* rotation that succeeded or failed, an eviction, the mark of a rewind) the
\* index file has been rewritten: its maxnum, begidx, curidx, count and slots
\* are those of the table in memory.
C28_IndexFileCurrent ==
    pc \in {"top", "wait"} => indexfile.kind = "table" /\ SameIndex(indexfile.tbl, tbl)

\* the items of the ring of t, from begidx to curidx
Walk(t) == [k \in 1..Len(RingWalk(t, t.begidx)) |-> t.data[RingWalk(t, t.begidx)[k]]]

IsSuffix(s, t) == Len(s) <= Len(t) /\ s = SubSeq(t, Len(t) - Len(s) + 1, Len(t))

\* new is old rebuilt for the threshold T
Rebuilt(old, new, T) ==
    /\ new.maxnum = T + 1
    /\ new.begidx = 0
    /\ new.curidx = new.count - 1
    /\ new.count <= T + 1
    /\ IsSuffix(Walk(new), Walk(old))
    /\ old.maxnum < T + 1 => Walk(new) = Walk(old)

\* a pass of the loop that serves a reload with another RemainThreshold, and
\* no rotation request
ReloadResize ==
    /\ pc = "top" /\ pc' # pc
    /\ ~need_exit /\ got_SIGHUP /\ ~rotation_requested
    /\ conf.Audit_RemainThreshold # currentAuditRemainThreshold

\* a start over an index file written under another RemainThreshold
RestartResize ==
    /\ pc = "down" /\ pc' # pc
    /\ indexfile.kind = "table"
    /\ indexfile.tbl.maxnum # conf.Audit_RemainThreshold + 1

IndexShortHeader == [kind |-> "header"]

\* an index_table file that holds the header of t and the first slots of
\* its slots: what pgaudit_read_indexfile gets of it is the header, these
\* slots, and the zeroes of palloc0 for the others
IndexTorn(t, slots) ==
    [kind |-> "table",
     tbl |-> [t EXCEPT !.data = [i \in DOMAIN t.data |->
                                    IF i < slots THEN t.data[i]
                                    ELSE AuditIndexItem(0, 0, 0)]],
     slots |-> slots]

\* the last rewrite of the index file of a collector that has exited wrote
\* less than the table: nothing, a part of the header, or the header and
\* the first slots
ShortIndexWrite(f) ==
    /\ pc = "exited"
    /\ indexfile = IndexHolding(tbl)
    /\ indexfile' = f
    /\ UNCHANGED <<envvars, guc, pipevars, loopvars, sigvars,
                   tbl, totalspace, beyond, fh, files, lists, rotation_requested,
                   rotation_disabled, next_rotation_time, removed>>
    /\ ForgetSql

TornFiles == 2

TornThresholds == {2, 3}

InitTorn ==
    \E T \in TornThresholds : InitWith(CountConf(T), RetainStart, 170, {RetainPid})

NextTorn ==
    \/ Start(-1)
    \/ LoopTop("ok", -1)
    \/ Wake
    \/ ReadPipe
    \/ /\ sent[RetainPid] = <<>>
       /\ Report(RetainPid, AUDIT_DML_ACTION, AUDIT_OK, STR_table, Fill(3, 100))
    \/ BackendWrite(RetainPid, TRUE)
    \/ ResizeRoom /\ SigUsr1(TornFiles)
    \/ SigQuit
    \/ Restart
    \/ \E f \in {IndexEmpty, IndexShortHeader}
               \cup {IndexTorn(tbl, n) : n \in 0..(tbl.maxnum - 1)} : ShortIndexWrite(f)

SpecTorn == InitTorn /\ [][NextTorn]_vars

(***************************************************************************)
(* Properties of a start over an index file that is not whole (SpecTorn).  *)
(***************************************************************************)
\* the file is empty, or ends within the header or before the last slot
Malformed(f) == f.kind \in {"empty", "header"} \/ "slots" \in DOMAIN f

\* t is the table of a start without an index file: of T + 1 slots, with the
\* file it opened in slot 0 and nothing else
FreshTable(t, T) ==
    /\ t.maxnum = T + 1
    /\ t.begidx = 0
    /\ t.curidx = 0
    /\ t.count = 1
    /\ t.data[0].filenum = 0
    /\ t.data[0].filesize = 0
    /\ \A i \in 1..T : t.data[i] = AuditIndexItem(0, 0, 0)

\* C29: an index file that is empty, or has a short header, or fewer than
\* maxnum slots, is treated as absent: the collector starts with a fresh
\* table of RemainThreshold + 1 slots and uses nothing the file holds.
C29_MalformedIsAbsent ==
    [][(pc = "down" /\ pc' # pc /\ Malformed(indexfile))
           => pc' = "top" /\ FreshTable(tbl', conf.Audit_RemainThreshold)]_vars

(***************************************************************************)
(* Properties of the retention pass (SpecRetain).                          *)
(***************************************************************************)
\* a pass of the loop, which ends with a retention pass
RetentionPass == pc = "top" /\ pc' = "wait"

\* the size of the open file the retention pass of the step worked with
PassFilesize == IF removed' = <<>> THEN fh'.pos ELSE removed'[1].filesize

\* the predicate of the while loop of the retention pass, after the step
PredicateAfter ==
    \/ U64GE(totalspace' + PassFilesize, guc'.Audit_SpaceLimit * 1024)
    \/ tbl'.count > guc'.Audit_RemainThreshold

\* count is smaller than it was when the retention pass of the step began
CountDecreased == removed' # <<>> /\ tbl'.count < removed'[1].count

KeptByAge ==
    /\ tbl'.count <= guc'.Audit_RemainThreshold
    /\ guc'.Audit_CleanupPolicy = 0
    /\ guc'.Audit_RemainAge # 0
    /\ WithinMaximumSize(totalspace' + PassFilesize)
    /\ \/ guc'.Audit_RemainAge * SECS_PER_DAY
              >= tbl'.last_audit_time - tbl'.data[tbl'.begidx].ctime
       \/ guc'.Audit_RemainAge * SECS_PER_DAY
              > tbl'.last_audit_time - tbl'.data[(tbl'.begidx + 1) % tbl'.maxnum].ctime

PassDue ==
    /\ pc = "top"
    /\ ~need_exit /\ ~got_SIGHUP /\ ~rotation_requested /\ ~rotation_disabled
    /\ fh.open
    /\ guc.Audit_RotationAge = 0
    /\ fh.pos < guc.Audit_RotationSize * 1024
    /\ fh.pos < guc.Audit_SpaceLimit * 1024

\* the while loop of the pass is entered under the time-priority policy
\* (lines 1249-1265)
AgeCase ==
    /\ U64GE(totalspace + fh.pos, guc.Audit_SpaceLimit * 1024)
    /\ tbl.count <= guc.Audit_RemainThreshold
    /\ guc.Audit_CleanupPolicy = 0
    /\ guc.Audit_RemainAge > 0
    /\ WithinMaximumSize(totalspace + fh.pos)

\* last_audit_time - ctime of slot i
AgeOf(i) == tbl.last_audit_time - tbl.data[i].ctime

\* the slot after the victim
NextSlot == (tbl.begidx + 1) % tbl.maxnum

\* the pass stops at the victim at begidx / removes it first
VictimKept == pgaudit_cleanup(Ctx, clock, -1).removed = <<>>

VictimEvicted ==
    \E r \in {pgaudit_cleanup(Ctx, clock, -1).removed} :
        r # <<>> /\ r[1].index = tbl.begidx

\* C32 as stated: in a retention pass under the time-priority policy with
\* RemainAge > 0, total within 1 TiB and count <= RemainThreshold, the victim
\* at begidx is kept exactly when last_audit_time - ctime is below
\* RemainAge * 86400 both for the victim and for the slot after it; otherwise
\* the victim is evicted.
C32_KeptIffBothYoung ==
    (PassDue /\ AgeCase) =>
        /\ VictimKept <=> /\ AgeOf(tbl.begidx) < guc.Audit_RemainAge * SECS_PER_DAY
                          /\ AgeOf(NextSlot) < guc.Audit_RemainAge * SECS_PER_DAY
        /\ VictimKept \/ VictimEvicted

\* C32, amended: the victim is kept exactly when last_audit_time - ctime is
\* at most RemainAge * 86400 for the victim, or below RemainAge * 86400 for
\* the slot after it; otherwise the victim is evicted.
C32_KeptIffEitherYoung ==
    (PassDue /\ AgeCase) =>
        /\ VictimKept <=> \/ AgeOf(tbl.begidx) <= guc.Audit_RemainAge * SECS_PER_DAY
                          \/ AgeOf(NextSlot) < guc.Audit_RemainAge * SECS_PER_DAY
        /\ VictimKept \/ VictimEvicted

\* a victim older than RemainAge is kept because the slot after it is younger
C32_Witness ==
    /\ PassDue /\ AgeCase /\ VictimKept
    /\ AgeOf(tbl.begidx) > guc.Audit_RemainAge * SECS_PER_DAY
    /\ AgeOf(NextSlot) < guc.Audit_RemainAge * SECS_PER_DAY

(***************************************************************************)
(* Properties of the planned rotation time (SpecZone).                     *)
(***************************************************************************)
\* the prologue has run
Started == pc = "down" /\ pc' = "top"

\* an iteration that has rotated with success: another file is open
Rotated ==
    /\ pc = "top" /\ pc' = "wait"
    /\ fh'.open
    /\ ~fh.open \/ fh'.fnum # fh.fnum

\* an iteration that serves a reload with another Audit_RotationAge
AgeReloaded ==
    /\ pc = "top" /\ pc' = "wait"
    /\ ~need_exit /\ got_SIGHUP
    /\ conf.Audit_RotationAge # currentAuditRotationAge

\* set_next_rotation_time has stored a time in this step
Recomputed ==
    /\ guc'.Audit_RotationAge > 0
    /\ Started \/ Rotated \/ AgeReloaded \/ next_rotation_time' # next_rotation_time

PlannedAhead ==
    /\ clock < next_rotation_time'
    /\ next_rotation_time' <= clock + guc'.Audit_RotationAge * SECS_PER_MINUTE
    /\ (next_rotation_time' + guc'.gmtoff) % (guc'.Audit_RotationAge * SECS_PER_MINUTE) = 0

\* the time trigger of the loop (lines 493-497) in the state reached
TimeTriggerAfter ==
    /\ guc'.Audit_RotationAge > 0
    /\ ~rotation_disabled'
    /\ clock' >= next_rotation_time'

\* C33: with RotationAge = k > 0 minutes, whenever next_rotation_time is
\* recomputed at time now, now < next_rotation_time <= now + k * 60 and
\* next_rotation_time plus the offset of the time zone is a multiple of
\* k * 60; right after a rotation that succeeded the time trigger is false.
C33_NextRotationTime ==
    [][/\ Recomputed => PlannedAhead
       /\ Rotated => ~TimeTriggerAfter]_vars

\* a time-based rotation two minutes apart, 5:45 ahead of GMT: the new file is
\* named after the time that was planned, and the next one is planned
C33_Witness ==
    /\ pc = "wait" /\ fh.open
    /\ guc.Audit_RotationAge = 2 /\ guc.gmtoff = 20700
    /\ tbl.curidx >= 1
    /\ tbl.data[tbl.curidx].ctime = next_rotation_time - 2 * SECS_PER_MINUTE
    /\ clock < next_rotation_time

(***************************************************************************)
(* Properties of the requests (SpecSignal).                                *)
(***************************************************************************)
\* with a request pending the collector is not in a wait that only pipe data
\* or the timeout can end
NotBlocked ==
    (Running /\ (rotation_requested \/ got_SIGHUP)) => (pc = "top" \/ latch)

\* an iteration of the loop that does not leave it
Served == pc = "top" /\ pc' = "wait" /\ ~need_exit

\* an iteration that finds a rotation requested rotates once
OneRotation ==
    (Served /\ rotation_requested) =>
        /\ fh'.open
        /\ fh'.fnum = fh.fnum + 1
        /\ tbl'.curidx = tbl.curidx + 1

\* an iteration that finds a reload requested reloads
OneReload ==
    (Served /\ got_SIGHUP) =>
        /\ guc' = conf
        /\ currentAuditRotationAge' = conf.Audit_RotationAge

\* C34: requests to rotate and to reload are coalesced and never lost: the
\* requests pending at an iteration produce one rotation and one reload, and
\* a request raised at any point, between the latch reset and the wait too,
\* is served by this iteration or the next one, without pipe data and
\* without the rotation timeout (unless the collector is told to exit).
C34_RequestsServed ==
    /\ []NotBlocked
    /\ [][OneRotation /\ OneReload]_vars
    /\ (Running /\ rotation_requested) ~> (~rotation_requested \/ need_exit)
    /\ (Running /\ got_SIGHUP) ~> (~got_SIGHUP \/ need_exit)

\* after a rotation a request is pending in the wait, with an empty pipe and
\* no timeout due
C34_Witness ==
    /\ pc = "wait" /\ rotation_requested /\ latch
    /\ fh.fnum >= 1
    /\ pipe = <<>> /\ ~TimeoutDue
    /\ ~got_SIGHUP /\ ~need_exit

(***************************************************************************)
(* Properties of the reassembly buffers (SpecPipe).                        *)
(***************************************************************************)
\* the slots of the list l that hold pid p
SlotsOf(l, p) == {i \in 1..Len(l) : l[i].pid = p}

\* the bytes the collector has not processed: what it kept and what is in the pipe
Unread == auditbuffer \o pipe

RECURSIVE ChunksFrom(_, _)
\* how many chunks of the producer p the bytes buf begin (whole or in part)
ChunksFrom(buf, p) ==
    IF Len(buf) < PIPE_HEADER_SIZE THEN 0
    ELSE (IF ChunkPid(buf) = p THEN 1 ELSE 0)
         + ChunksFrom(SubSeq(buf, PIPE_HEADER_SIZE + ChunkLen(buf) + 1, Len(buf)), p)

\* the chunks of p that reached the pipe
Piped(p) == SelectSeq(wlog[p], LAMBDA w : w.ok)

\* the number of chunks of p the collector has processed
Processed(p) == Len(Piped(p)) - ChunksFrom(Unread, p)

\* the last chunk of p that was processed is not a final one
LastWasNotFinal(p) ==
    /\ Processed(p) > 0
    /\ Piped(p)[Processed(p)].chunk[PIPE_HEADER_SIZE] = CH_f

\* in every bucket a producer has one live slot at most, and has one exactly
\* when the last of its chunks that was processed is not a final one
SlotInv ==
    Running =>
        \A p \in DOMAIN wlog :
            \E l \in {GetList(lists, p % NBUFFER_LISTS)} :
                /\ Cardinality(SlotsOf(l, p)) <= 1
                /\ SlotsOf(l, p) # {} <=> LastWasNotFinal(p)

\* the bytes a step of the collector had in auditbuffer after its read
ReadIn == auditbuffer \o SubSeq(pipe, 1, Len(pipe) - Len(pipe'))

\* a step that reads from the pipe and processes one chunk
OneChunk ==
    /\ pc = "wait" /\ pc' = "top"
    /\ Len(pipe') < Len(pipe)
    /\ Len(ReadIn) >= PIPE_HEADER_SIZE
    /\ Len(ReadIn) - Len(auditbuffer') = PIPE_HEADER_SIZE + ChunkLen(ReadIn)

\* what the chunk does to the list of its bucket
ChunkEffect ==
    \E p \in {ChunkPid(ReadIn)} :
    \E old \in {GetList(lists, p % NBUFFER_LISTS)} :
    \E new \in {GetList(lists', p % NBUFFER_LISTS)} :
        /\ \A i \in 1..Len(old) : old[i].pid \notin {0, p} => new[i] = old[i]
        /\ IF ReadIn[PIPE_HEADER_SIZE] = CH_f
           THEN /\ Cardinality(SlotsOf(new, p)) = 1
                /\ Len(new) = IF SlotsOf(old, p) = {} /\ SlotsOf(old, 0) = {}
                              THEN Len(old) + 1 ELSE Len(old)
           ELSE /\ SlotsOf(new, p) = {}
                /\ Len(new) = Len(old)
                /\ \A i \in SlotsOf(old, p) : new[i].pid = 0

\* C35: after any sequence of valid chunks a bucket holds one slot per
\* producer at most; a producer has a live slot exactly when the last chunk
\* processed from it was not a final one; a final chunk sets the pid of the
\* slot to 0; a slot is appended only when the bucket has no slot with pid 0
\* (as the code stands this fails: a short final chunk without a slot is
\* written from the read buffer, and the stamps of C21 land on the header of
\* the chunk behind it).
C35_Slots == []SlotInv /\ [][OneChunk => ChunkEffect]_vars

(***************************************************************************)
(* Properties of the open file and the ring (SpecRotate).                  *)
(***************************************************************************)
\* the slots of the ring from begidx to curidx, but curidx
OtherSlots ==
    {RingWalk(tbl, tbl.begidx)[k] : k \in 1..Len(RingWalk(tbl, tbl.begidx))} \ {tbl.curidx}

\* C36: between the steps of the loop, an audit file that is open is the file
\* numbered data[curidx].filenum, and no other slot of the ring refers to it;
\* this holds after rotations (failed ones too), retention and resize
\* (as the code stands this fails: retention removes the file of curidx, C7).
C36_OpenIsCurrent ==
    (pc \in {"top", "wait"} /\ fh.open) =>
        /\ fh.fnum = tbl.data[tbl.curidx].filenum
        /\ \A i \in OtherSlots : tbl.data[i].filenum # fh.fnum

(***************************************************************************)
(* Properties of pgaudit_totalspace (SpecRetain).                          *)
(***************************************************************************)
RECURSIVE SumSizes(_, _)
\* the sum of filesize over the slots s of the table t
SumSizes(t, s) ==
    IF s = {} THEN 0
    ELSE LET i == CHOOSE x \in s : TRUE
         IN t.data[i].filesize + SumSizes(t, s \ {i})

\* C37: between the steps of the loop pgaudit_totalspace is the sum of
\* filesize over the slots of the ring from begidx up to curidx, curidx left
\* out, and it is never negative
\* (as the code stands this fails once the slot of curidx has been evicted, C7).
C37_TotalSpace ==
    pc \in {"top", "wait"} =>
        /\ totalspace = SumSizes(tbl, OtherSlots)
        /\ totalspace >= 0

(***************************************************************************)
(* Properties of a chunk behind non-protocol bytes (SpecStray).            *)
(***************************************************************************)
\* the chunk the backend wrote
StrayChunk == wlog[RetainPid][1].chunk

\* the bytes in the pipe before the chunk
RunBefore == SubSeq(pipe, 1, Len(pipe) - Len(StrayChunk))

\* the pipe holds non-protocol bytes and then the one chunk of a record, and
\* the collector is about to read them into its empty buffer
MixedRead ==
    /\ pc = "wait" /\ fh.open /\ fh.linked
    /\ auditbuffer = <<>>
    /\ Len(wlog[RetainPid]) = 1 /\ wlog[RetainPid][1].ok
    /\ Len(pipe) > Len(StrayChunk)
    /\ Len(pipe) <= READ_BUF_SIZE
    /\ SubSeq(pipe, Len(pipe) - Len(StrayChunk) + 1, Len(pipe)) = StrayChunk
    /\ \A i \in 1..Len(RunBefore) : RunBefore[i] # 0
    /\ clock >= tbl.last_audit_time

\* the step writes the run and then the record of the chunk, whole
ChunkRecognised ==
    /\ pc' = "top"
    /\ auditbuffer' = <<>>
    /\ lists' = lists
    /\ Len(files'[fh.fnum]) = Len(files[fh.fnum]) + Len(pipe) - PIPE_HEADER_SIZE
    /\ RecordAt(files'[fh.fnum], Len(files[fh.fnum]) + Len(RunBefore), sent[RetainPid][1])

\* C38: writing out a run of non-protocol bytes leaves every other byte of
\* the read buffer as it was: a valid chunk that follows the run in the same
\* read is recognised with its pid, len, is_last and payload
\* (as the code stands this fails for a run shorter than 20 bytes: the stamps
\* of C21 land on the header of the chunk).
C38_ChunkAfterStray == [][(MixedRead /\ pipe' = <<>> /\ pc' # pc) => ChunkRecognised]_vars

(***************************************************************************)
(* Properties of a rotation whose open fails and is tried again.           *)
(***************************************************************************)
\* the slot after the current one
NextIndex(t) == (t.curidx + 1) % t.maxnum

\* the file number in the current slot
CurrentNum(t) == t.data[t.curidx].filenum

\* an iteration whose rotation closed the file and could not open the next
OpenFailed == pc = "top" /\ pc' = "wait" /\ fh.open /\ ~fh'.open

\* a step of the running collector with no file open before and after
NoFile ==
    /\ pc \in {"top", "wait"} /\ pc' \in {"top", "wait"}
    /\ ~fh.open /\ ~fh'.open

\* an iteration whose rotation opened a file when none was open
OpenRetried == pc = "top" /\ pc' = "wait" /\ ~fh.open /\ fh'.open

\* C39: when the open of a rotation fails and a later attempt succeeds,
\* curidx has advanced by exactly one slot over both and the new file has the
\* number of the previous one plus one: the failing iteration moves curidx one
\* slot on and numbers it, nothing moves while no file is open, and the
\* attempt that succeeds opens the file of that slot
\* (as the code stands this fails when the retention pass of the failing
\* iteration evicts the slot of curidx, C7).
C39_RetryOneSlot ==
    [][/\ OpenFailed => /\ tbl'.curidx = NextIndex(tbl)
                        /\ CurrentNum(tbl') = CurrentNum(tbl) + 1
       /\ NoFile => /\ tbl'.curidx = tbl.curidx
                    /\ CurrentNum(tbl') = CurrentNum(tbl)
       /\ OpenRetried => /\ tbl'.curidx = tbl.curidx
                         /\ CurrentNum(tbl') = CurrentNum(tbl)
                         /\ fh'.fnum = CurrentNum(tbl)]_vars

(***************************************************************************)
(* SpecRewrite: a session that queries and deletes while the collector     *)
(* rotates by time.  pgaudit_update_indexfile opens index_table with "w",  *)
(* which truncates it, writes the table through the buffer of the stream   *)
(* and closes it; the session opens the same path with "r" under no lock.  *)
(***************************************************************************)
RewriteTick == 30

RewriteTicks == 2

RewriteRecords == 2

RewriteConf == [QueryConf EXCEPT !.Audit_RemainThreshold = 2]

\* what a reader can find in index_table around a rewrite of it: the file as
\* it was, the file truncated, a part of the header, the header and the
\* first slots, or the file as the rewrite leaves it
IndexStages(old, new) ==
    {old, new, IndexEmpty, IndexShortHeader}
        \cup {IndexTorn(new.tbl, n) : n \in 0..(new.tbl.maxnum - 1)}

\* an iteration of the loop that rewrites index_table, and a session whose
\* pg_query_audit or pg_delete_audit (del) reads index_table at some point of
\* the rewrite and scans the audit files when the iteration is over
LoopTopObserved(res, badnum, del, begtime, endtime) ==
    /\ pc = "top"
    /\ ~need_exit
    /\ latch' = FALSE
    /\ \E c1 \in {IF got_SIGHUP THEN ServeSighup(Ctx, clock, badnum) ELSE Ctx} :
           /\ \E c2 \in {IF c1.crashed THEN c1
                          ELSE ServeRotation(c1, clock, res, badnum)} :
                  /\ ~c2.crashed
                  /\ c2.indexfile # indexfile
                  /\ \E seen \in IndexStages(indexfile, c2.indexfile) :
                     \E after \in {IF del THEN pg_delete_audit(seen, c2.files, begtime,
                                                               endtime, stackpad)
                                   ELSE c2.files} :
                         /\ Settle([c2 EXCEPT !.files = after], "wait")
                         /\ rows' = IF del THEN NoRows
                                    ELSE [called |-> TRUE, begtime |-> begtime,
                                          endtime |-> endtime, dir |-> c2.files,
                                          out |-> pg_query_audit(seen, c2.files,
                                                                 begtime, endtime)]
                         /\ snap' = IF del
                                    THEN [called |-> TRUE, begtime |-> begtime,
                                          endtime |-> endtime, index |-> seen,
                                          before |-> c2.files, after |-> after]
                                    ELSE NoSnap
           /\ got_SIGHUP' = FALSE
           /\ loopnow' = IF c1.guc.Audit_RotationAge > 0 /\ ~c1.rotation_disabled
                         THEN clock ELSE loopnow
           /\ currentAuditRotationAge' =
                  IF got_SIGHUP THEN c1.guc.Audit_RotationAge
                  ELSE currentAuditRotationAge
           /\ currentAuditRemainThreshold' =
                  IF got_SIGHUP THEN c1.guc.Audit_RemainThreshold
                  ELSE currentAuditRemainThreshold
    /\ UNCHANGED <<envvars, pipevars, need_exit, auditbuffer, pipe_eof_seen>>

InitRewrite == InitWith(RewriteConf, QueryStart, 170, {QueryPid})

NextRewrite ==
    \/ Start(-1)
    \/ LoopTop("ok", -1)
    \/ Wake
    \/ ReadPipe
    \/ Tick(RewriteTick, QueryStart + RewriteTicks * RewriteTick)
    \/ /\ Len(sent[QueryPid]) < RewriteRecords
       /\ Report(QueryPid, AUDIT_DML_ACTION, AUDIT_OK, STR_table, Fill(3, 100))
    \/ BackendWrite(QueryPid, TRUE)
    \/ \E b \in QueryTimes, e \in QueryTimes : b < e /\ Query(b, e)
    \/ \E b \in QueryTimes, e \in QueryTimes : b < e /\ Delete(b, e)
    \/ \E del \in BOOLEAN, b \in QueryTimes, e \in QueryTimes :
          b < e /\ LoopTopObserved("ok", -1, del, b, e)

SpecRewrite == InitRewrite /\ [][NextRewrite]_vars

(***************************************************************************)
(* Properties of a read of index_table during its rewrite (SpecRewrite).   *)
(***************************************************************************)
\* the step is an iteration of the loop during which a session ran a query
\* or a delete
ReadInRewrite == pc = "top" /\ pc' = "wait" /\ (rows'.called \/ snap'.called)

\* the rows are those of a query over the table before or after the rewrite
RowsOfWholeTable ==
    \/ rows'.out = pg_query_audit(indexfile, rows'.dir, rows'.begtime, rows'.endtime)
    \/ rows'.out = pg_query_audit(indexfile', rows'.dir, rows'.begtime, rows'.endtime)

\* the delete loaded the table before or after the rewrite
LoadedWholeTable == snap'.index \in {indexfile, indexfile'}

\* C40: a query or delete that reads index_table while the collector rewrites
\* it acts on the table before the rewrite or on the table after it, never on
\* a part of one: it skips no file that is in the ring before and after
\* (as the code stands the reader can find the file truncated or cut short).
C40_WholeTable ==
    [][ReadInRewrite => /\ rows'.called => RowsOfWholeTable
                        /\ snap'.called => LoadedWholeTable]_vars

====
